---- MODULE Spec2Model ----
(***************************************************************************)
(* Model of cephadm.py: the per-cluster FileLock, the daemon deploy /      *)
(* reconfigure / remove engine, the exporter daemon, call(), the polls    *)
(* and order of bootstrap, and the infer_fsid decorator.                   *)
(***************************************************************************)
EXTENDS Integers, FiniteSets, Sequences, TLC

\* ------------------------------------------------------------------------
\* Bounds of the model.
NumProcs == 3
MaxClock == 1
MaxOps == 2
MaxSeq == 3
MaxCallClock == 3
MaxRetry == 2

Procs == 1..NumProcs
FSIDs == {"F1", "F2"}
NoFsid == "-"

VARIABLES
    lk,      \* lk[p]: the FileLock object of agent process p
    flock    \* flock[F]: processes whose open file description holds
             \* the kernel advisory lock on /run/cephadm/<F>.lock

VARIABLES
    token,   \* CephadmDaemon.token and CephadmHTTPServer.token
    tasks,   \* CephadmCache.tasks
    slots,   \* CephadmCache.daemons, disks and host
    daemon,  \* the CephadmDaemon object, its threads and its data directory
    resp     \* the response to the last GET

VARIABLES
    kind,     \* daemon_type of the daemon <kind>.a of cluster F1
    fwAvail,  \* Firewalld.available on this host
    now,      \* the host's clock
    dir,      \* the daemon's data directory <data_dir>/F1/<kind>.a
    removed,  \* the directories under <data_dir>/F1/removed
    sys,      \* init-system, unit-directory and firewall state
    inv       \* the running agent invocation: arguments and position

VARIABLES
    proc,     \* the running call(): its child process and its position
    boot,     \* the running bootstrap: its position, polls and daemons
    infer,    \* a command behind @infer_fsid: its context and the host
    host      \* the clusters on one host, what they share, and the
              \* running rm-cluster

lockVars == <<lk, flock>>
httpVars == <<token, tasks, slots, daemon, resp>>
deployVars == <<kind, fwAvail, now, dir, removed, sys, inv>>
toolVars == <<proc, boot, infer, host>>

vars == <<lk, flock, token, tasks, slots, daemon, resp,
          kind, fwAvail, now, dir, removed, sys, inv, proc, boot, infer,
          host>>

\* ------------------------------------------------------------------------
\* Daemons, files and host state of the deploy engine

Kinds == {"mon", "mgr", "osd", "prometheus", "nfs", "cephadm-exporter"}
\* the members of Ceph.daemons among Kinds
CephDaemons == {"mon", "mgr", "osd"}
MonitoringComponents == {"prometheus"}
Images == {"imgA", "imgB"}
\* --tcp-ports values, the NFSGanesha.port_map port and
\* CephadmDaemon.default_port
TcpPorts == {9095}
NfsPort == 2049
ExporterPort == 9443

FileNames == {"unit.run", "unit.run.new", "unit.meta", "unit.meta.new",
              "unit.poststop", "unit.poststop.new",
              "unit.image", "unit.image.new",
              "unit.created", "unit.configured", "config"}

\* A file: st is "absent", "empty" (opened for writing, the text still in
\* the writer's buffer), "partial" (part of the text flushed) or "full";
\* mtime is kept for unit.created and unit.configured, whose mtime is their
\* meaning; img and ports are the image reference and the ports in the text.
NoFile == [st |-> "absent", mode |-> "-", mtime |-> 0, img |-> "-",
           ports |-> {}]
\* A data directory: mkfs tells whether ceph-mon --mkfs has been run in it
\* ("never", "once", or "again" for a second run over the first store)
NoDir == [exists |-> FALSE, files |-> [n \in FileNames |-> NoFile],
          mkfs |-> "never"]
EmptyDir == [exists |-> TRUE, files |-> [n \in FileNames |-> NoFile],
             mkfs |-> "never"]

\* n counts the invocations started so far; declared is --tcp-ports, ports
\* is daemon_ports, inuse the ports of the invocation that are bound on the
\* host, warned whether the port warning has been logged, meta the ports
\* named in --meta-json
Idle == [pc |-> "idle", n |-> 0, op |-> "-", result |-> "-",
         reconfig |-> FALSE,
         image |-> "-", declared |-> {}, ports |-> {}, inuse |-> {},
         redeploy |-> FALSE, warned |-> FALSE, meta |-> {}, fdd |-> FALSE]

\* a host with no daemon of cluster F1 deployed
FreshHost(k, fw) ==
    /\ kind = k
    /\ fwAvail = fw
    /\ now = 0
    /\ dir = NoDir
    /\ removed = {}
    /\ sys = [enabled |-> FALSE, active |-> FALSE, unitFiles |-> {},
              fwServices |-> {}, fwPorts |-> {}, varRun |-> FALSE]
    /\ inv = Idle

DeployIdle == FreshHost("mon", FALSE)

\* ------------------------------------------------------------------------
\* FileLock

\* State of a process that has not constructed a FileLock yet.
NoLock == [pc |-> "none", fsid |-> NoFsid, fd |-> FALSE, counter |-> 0,
           timeout |-> -1, waited |-> 0]

\* FileLock.is_locked: _lock_file_fd is not None
is_locked(p) == lk[p].fd

\* FileLock.__init__: names the lock file after the FSID, no fd, counter 0
FileLock_init(p, name, timeout) ==
    /\ lk[p].pc = "none"
    /\ lk' = [lk EXCEPT ![p] = [pc |-> "ready", fsid |-> name, fd |-> FALSE,
                                counter |-> 0, timeout |-> timeout,
                                waited |-> 0]]
    /\ UNCHANGED <<flock, httpVars, deployVars, toolVars>>

\* flock(fd, LOCK_EX | LOCK_NB) succeeds iff no other open file description
\* holds the lock on the same file
FlockGranted(name) == flock[name] = {}

\* acquire() compares the time it has waited only with the timeout: the
\* polls are counted up to the first value that exceeds it
WaitCap(timeout) == IF timeout >= 0 THEN timeout + 1 ELSE 1

\* FileLock._acquire with the result of flock ignored
_acquire_unchecked(p) ==
    /\ lk' = [lk EXCEPT ![p].fd = TRUE, ![p].pc = "held"]
    /\ flock' = [flock EXCEPT ![lk[p].fsid] = @ \cup {p}]

\* FileLock._acquire and acquire()'s loop with the except clause that
\* undoes the counter increment left out
_acquire_keeps_count(p) ==
    IF FlockGranted(lk[p].fsid)
    THEN /\ lk' = [lk EXCEPT ![p].fd = TRUE, ![p].pc = "held",
                             ![p].waited = 0]
         /\ flock' = [flock EXCEPT ![lk[p].fsid] = @ \cup {p}]
    ELSE /\ UNCHANGED flock
         /\ IF lk[p].timeout >= 0 /\ lk[p].waited > lk[p].timeout
            THEN lk' = [lk EXCEPT ![p].pc = "timeout", ![p].waited = 0]
            ELSE lk' = [lk EXCEPT ![p].waited =
                                      IF @ < WaitCap(lk[p].timeout)
                                      THEN @ + 1 ELSE @]

\* FileLock._acquire and acquire()'s loop with the timeout >= 0 test left out
_acquire_deadline(p) ==
    IF FlockGranted(lk[p].fsid)
    THEN /\ lk' = [lk EXCEPT ![p].fd = TRUE, ![p].pc = "held",
                             ![p].waited = 0]
         /\ flock' = [flock EXCEPT ![lk[p].fsid] = @ \cup {p}]
    ELSE /\ UNCHANGED flock
         /\ IF lk[p].waited > lk[p].timeout
            THEN lk' = [lk EXCEPT ![p].pc = "timeout",
                                  ![p].waited = 0,
                                  ![p].counter =
                                      IF @ - 1 > 0 THEN @ - 1 ELSE 0]
            ELSE lk' = [lk EXCEPT ![p].waited =
                                      IF @ < WaitCap(lk[p].timeout)
                                      THEN @ + 1 ELSE @]

\* FileLock._acquire followed by the is_locked test of acquire()'s loop:
\* open the lock file, try the non-blocking exclusive flock; on success keep
\* the fd, on failure close it and (timeout/sleep branch) either raise
\* Timeout, undoing the counter increment, or sleep and poll again.  The
\* time waited is a local of acquire() and ends with the call.
_acquire(p) ==
    IF FlockGranted(lk[p].fsid)
    THEN /\ lk' = [lk EXCEPT ![p].fd = TRUE, ![p].pc = "held",
                             ![p].waited = 0]
         /\ flock' = [flock EXCEPT ![lk[p].fsid] = @ \cup {p}]
    ELSE /\ UNCHANGED flock
         /\ IF lk[p].timeout >= 0 /\ lk[p].waited > lk[p].timeout
            THEN lk' = [lk EXCEPT ![p].pc = "timeout",
                                  ![p].waited = 0,
                                  ![p].counter =
                                      IF @ - 1 > 0 THEN @ - 1 ELSE 0]
            ELSE lk' = [lk EXCEPT ![p].waited =
                                      IF @ < WaitCap(lk[p].timeout)
                                      THEN @ + 1 ELSE @]

\* FileLock.acquire, entry: increment the counter, then enter the loop
acquire_enter(p) ==
    /\ lk[p].pc \in {"ready", "held"}
    /\ lk[p].counter < 2
    /\ lk' = [lk EXCEPT ![p].counter = @ + 1,
                        ![p].waited = 0,
                        ![p].pc = IF is_locked(p) THEN "held" ELSE "acquiring"]
    /\ UNCHANGED <<flock, httpVars, deployVars, toolVars>>

\* FileLock.acquire, one iteration of the polling loop
acquire_poll(p) ==
    /\ lk[p].pc = "acquiring"
    /\ _acquire(p)
    /\ UNCHANGED <<httpVars, deployVars, toolVars>>

\* FileLock.release with the counter test left out: _release at every call
release_always_unlocks(p, force) ==
    /\ lk[p].pc \in {"ready", "held", "timeout"}
    /\ IF is_locked(p)
       THEN /\ lk' = [lk EXCEPT ![p].fd = FALSE, ![p].counter = @ - 1,
                                ![p].pc = "ready"]
            /\ flock' = [flock EXCEPT ![lk[p].fsid] = @ \ {p}]
       ELSE /\ lk' = [lk EXCEPT ![p].pc = "ready"]
            /\ UNCHANGED flock
    /\ UNCHANGED <<httpVars, deployVars, toolVars>>

\* FileLock.release / _release
release(p, force) ==
    /\ lk[p].pc \in {"ready", "held", "timeout"}
    /\ IF is_locked(p)
       THEN IF lk[p].counter - 1 = 0 \/ force
            THEN /\ lk' = [lk EXCEPT ![p].fd = FALSE, ![p].counter = 0,
                                     ![p].pc = "ready"]
                 /\ flock' = [flock EXCEPT ![lk[p].fsid] = @ \ {p}]
            ELSE /\ lk' = [lk EXCEPT ![p].counter = @ - 1]
                 /\ UNCHANGED flock
       ELSE /\ lk' = [lk EXCEPT ![p].pc = "ready"]
            /\ UNCHANGED flock
    /\ UNCHANGED <<httpVars, deployVars, toolVars>>

\* The agent process exits or is killed: the kernel closes its descriptors
\* and with them drops its advisory lock.
ProcessExit(p) ==
    /\ lk[p].pc # "none"
    /\ lk' = [lk EXCEPT ![p] = NoLock]
    /\ flock' = [flock EXCEPT ![lk[p].fsid] = @ \ {p}]
    /\ UNCHANGED <<httpVars, deployVars, toolVars>>

LockIdle ==
    /\ lk = [p \in Procs |-> NoLock]
    /\ flock = [f \in FSIDs |-> {}]

HttpIdle ==
    /\ token = "Unknown"
    /\ tasks = [t \in {"daemons", "disks", "host", "http_server"} |->
                   "inactive"]
    /\ slots = [k \in {"daemons", "disks", "host"} |-> "zero"]
    /\ daemon = [pc |-> "new", stop |-> FALSE, socket |-> "none",
                 crt |-> "missing", key |-> "missing", busy |-> FALSE,
                 workers |-> [t \in {"daemons", "disks", "host",
                                     "http_server"} |-> "unstarted"]]
    /\ resp = [path |-> "-", auth |-> "-", status |-> 0, body |-> "-",
               data |-> "-"]

InferIdle ==
    infer = [pc |-> "idle", daemons |-> {}, fsid |-> "", name |-> "",
             given |-> ""]

\* The state of one cluster on the host: data holds the names of the
\* daemon directories under <data_dir>/<fsid> and root whether that
\* directory exists, logs whether <log_dir>/<fsid> exists, units the unit
\* files of the cluster, sysctl the daemon types with a fragment
\* 90-ceph-<fsid>-<type>.conf, logrotate whether the file ceph-<fsid>
\* exists, enabled and active the daemons whose unit is enabled and runs,
\* target whether ceph-<fsid>.target is enabled and started
NoCluster ==
    [data |-> {}, root |-> FALSE, logs |-> FALSE, units |-> {},
     sysctl |-> {}, logrotate |-> FALSE, enabled |-> {}, active |-> {},
     target |-> FALSE]

\* no rm-cluster is running
NoRmCluster ==
    [pc |-> "idle", fsid |-> "-", keep_logs |-> FALSE, result |-> "-"]

\* A host without clusters; shared holds what the clusters have in common:
\* ceph.target, the logrotate file cephadm and the cluster that
\* /etc/ceph/ceph.conf names
NoHost ==
    [cluster |-> [f \in FSIDs |-> NoCluster],
     shared |-> [target |-> FALSE, logrotate |-> FALSE, conf |-> "none"],
     rm |-> NoRmCluster]

HostIdle == host = NoHost

ToolIdle ==
    /\ InferIdle
    /\ HostIdle
    /\ proc = [pc |-> "idle", timeout |-> 0, total |-> 0, waited |-> 0,
               streams |-> "-", child |-> "none", returncode |-> -1,
               timedout |-> FALSE]
    /\ boot = [pc |-> "idle", skip_pull |-> FALSE, retry |-> 0,
               pulls |-> <<>>, slept |-> 0, what |-> "-", num |-> 0,
               probes |-> <<>>, waited |-> 0, mon |-> "absent",
               mgr |-> "absent", module |-> FALSE, error |-> "-",
               mgrmap |-> 1, before |-> 0, epoch |-> 0, seen |-> -1]

InitLock ==
    /\ LockIdle
    /\ HttpIdle
    /\ ToolIdle
    /\ DeployIdle

NextLock ==
    \/ \E p \in Procs, f \in FSIDs, t \in {-1, 1} : FileLock_init(p, f, t)
    \/ \E p \in Procs : acquire_enter(p)
    \/ \E p \in Procs : acquire_poll(p)
    \/ \E p \in Procs, force \in BOOLEAN : release(p, force)
    \/ \E p \in Procs : ProcessExit(p)

SpecLock == InitLock /\ [][NextLock]_vars

\* ------------------------------------------------------------------------
\* C1: at most one agent process holds FileLock(F) for a given FSID F; a
\* process polling for F obtains it in a step exactly when no process holds
\* F, whoever holds any other FSID.
Holders(f) == {p \in Procs : lk[p].fsid = f /\ is_locked(p)}

C1_MutualExclusion ==
    /\ \A f \in FSIDs : Cardinality(Holders(f)) <= 1
    /\ \A f \in FSIDs : Holders(f) = flock[f]
    /\ \A p \in Procs :
          lk[p].pc = "acquiring" =>
             (ENABLED (acquire_poll(p) /\ is_locked(p)')
                 <=> Holders(lk[p].fsid) = {})

\* a process waits for F1 held by another while a third holds F2
C1_Witness ==
    \E p, q, r \in Procs :
        /\ p # q /\ lk[p].fsid = "F1" /\ is_locked(p)
        /\ lk[q].fsid = "F1" /\ lk[q].pc = "acquiring" /\ lk[q].waited > 0
        /\ lk[r].fsid = "F2" /\ is_locked(r)

\* ------------------------------------------------------------------------
\* Exporter: CephadmCache, CephadmDaemonHandler and CephadmDaemon

Tokens == {"tokenAAAA", "tokenBBBB"}
ShortToken == "short"
TokenFiles == Tokens \cup {ShortToken, "Unknown"}
PemFiles == {"missing", "nopem", "pem"}
Scrapers == {"daemons", "disks", "host"}
task_types == Scrapers \cup {"http_server"}
NoHeader == "None"
Headers == {NoHeader, "tokenAAAA", "Basic tokenAAAA"}
               \cup {"Bearer " \o t : t \in Tokens}
valid_routes == {"/v1/metadata", "/v1/metadata/health", "/v1/metadata/disks",
                 "/v1/metadata/daemons", "/v1/metadata/host"}
Paths == valid_routes \cup {"/", "/v1/other"}

\* the positions of run() at which the exporter process is alive
Running == {"create_host", "start_host", "create_daemons", "start_daemons",
            "create_disks", "start_disks", "bind", "wrap",
            "create_http_server", "start_http_server", "loop", "hung"}
Alive == daemon.pc \in Running
Serving == daemon.pc = "loop" /\ daemon.workers["http_server"] = "running"

\* CephadmDaemon.can_run with the gate left out
can_run_always(crt, key, t, busy) == TRUE

\* CephadmDaemon.can_run: the port is free, key and crt exist in the data
\* directory, and read_file found the token file
can_run(crt, key, t, busy) ==
    /\ ~busy
    /\ key # "missing"
    /\ crt # "missing"
    /\ t # "Unknown"

\* command_exporter: CephadmDaemon.__init__ reads the token file ('Unknown'
\* when it is missing), run() returns at once unless can_run
exporter_run(crt, key, t, busy) ==
    /\ daemon.pc = "new"
    /\ token' = t
    /\ daemon' = [daemon EXCEPT
                     !.crt = crt, !.key = key, !.busy = busy,
                     !.pc = IF can_run(crt, key, t, busy)
                            THEN "create_host" ELSE "refused"]
    /\ UNCHANGED <<tasks, slots, resp, lockVars, deployVars, toolVars>>

\* CephadmCache.update_health
update_health(task_type, task_status) ==
    [tasks EXCEPT ![task_type] = task_status]

\* CephadmDaemon._create_thread without the update_health call
_create_thread_nohealth(name) ==
    /\ daemon.pc = "create_" \o name
    /\ daemon' = [daemon EXCEPT !.pc = "start_" \o name]
    /\ UNCHANGED <<token, tasks, slots, resp, lockVars, deployVars, toolVars>>

\* the scrapers inside the with block of CephadmCache.update_task: the
\* slot holds the keys written so far ("stamped": the timestamp of the first
\* scrape and no data yet; "restamped": the timestamp of a new scrape with
\* the data of the previous one)
Updating == {k \in Scrapers : slots[k] \in {"stamped", "restamped"}}

\* CephadmCache.lock is not held
cache_lock_free == Updating = {}

\* CephadmDaemon._create_thread up to update_health(name, 'active')
_create_thread(name) ==
    /\ daemon.pc = "create_" \o name
    /\ cache_lock_free
    /\ tasks' = update_health(name, "active")
    /\ daemon' = [daemon EXCEPT !.pc = "start_" \o name]
    /\ UNCHANGED <<token, slots, resp, lockVars, deployVars, toolVars>>

\* CephadmDaemon._create_thread: t.start(), and run() goes on
thread_start(name, after) ==
    /\ daemon.pc = "start_" \o name
    /\ daemon' = [daemon EXCEPT !.workers[name] = "running", !.pc = after]
    /\ UNCHANGED <<token, tasks, slots, resp, lockVars, deployVars, toolVars>>

\* run(): CephadmHTTPServer(('0.0.0.0', port), ...) binds and listens
server_bind ==
    /\ daemon.pc = "bind"
    /\ daemon' = [daemon EXCEPT !.socket = "bound", !.pc = "wrap"]
    /\ UNCHANGED <<token, tasks, slots, resp, lockVars, deployVars, toolVars>>

\* run(): ssl.wrap_socket loads key and crt; without a PEM envelope it
\* raises and the process ends with what it had started
wrap_socket ==
    /\ daemon.pc = "wrap"
    /\ daemon' = IF daemon.crt = "pem" /\ daemon.key = "pem"
                 THEN [daemon EXCEPT !.socket = "tls",
                                     !.pc = "create_http_server"]
                 ELSE [daemon EXCEPT !.pc = "crashed"]
    /\ UNCHANGED <<token, tasks, slots, resp, lockVars, deployVars, toolVars>>

\* a scraper's else branch up to the first assignment of update_task: the
\* lock is taken and current['scrape_timestamp'] is set in the dict that
\* the cache serves
scrape(k) ==
    /\ Alive
    /\ daemon.workers[k] = "running"
    /\ cache_lock_free
    /\ slots' = [slots EXCEPT ![k] = IF @ = "zero" THEN "stamped"
                                     ELSE "restamped"]
    /\ UNCHANGED <<token, tasks, daemon, resp, lockVars, deployVars, toolVars>>

\* CephadmCache.update_task, the rest of the loop over the keys: duration,
\* errors and data are set, the with block ends and the lock is released
update_task(k) ==
    /\ k \in Updating
    /\ slots' = [slots EXCEPT ![k] = "data"]
    /\ UNCHANGED <<token, tasks, daemon, resp, lockVars, deployVars, toolVars>>

\* a scraper's except branch: _handle_thread_exception stores scrape_errors
\* and data None in the slot, exception_encountered ends the thread
_handle_thread_exception(k) ==
    /\ Alive
    /\ daemon.workers[k] = "running"
    /\ cache_lock_free
    /\ slots' = [slots EXCEPT ![k] = "error"]
    /\ daemon' = [daemon EXCEPT !.workers[k] = "failed"]
    /\ UNCHANGED <<token, tasks, resp, lockVars, deployVars, toolVars>>

\* a scraper's loop head: self.stop ends the thread
scraper_stops(k) ==
    /\ Alive
    /\ daemon.stop
    /\ daemon.workers[k] = "running"
    /\ k \notin Updating
    /\ daemon' = [daemon EXCEPT !.workers[k] = "stopped"]
    /\ UNCHANGED <<token, tasks, slots, resp, lockVars, deployVars, toolVars>>

\* the thread check of run() with is_alive() left out
run_check_all ==
    /\ Serving
    /\ ~daemon.stop
    /\ cache_lock_free
    /\ tasks' = [k \in task_types |->
                    IF k \in Scrapers THEN "inactive" ELSE tasks[k]]
    /\ UNCHANGED <<token, slots, daemon, resp, lockVars, deployVars, toolVars>>

\* the thread check of run(): every worker whose task is not inactive and
\* whose thread is not alive is marked inactive; self.workers holds the
\* three scrapers only
run_check ==
    /\ Serving
    /\ ~daemon.stop
    /\ cache_lock_free
    /\ tasks' = [k \in task_types |->
                    IF /\ k \in Scrapers
                       /\ tasks[k] # "inactive"
                       /\ daemon.workers[k] # "running"
                    THEN "inactive" ELSE tasks[k]]
    /\ UNCHANGED <<token, slots, daemon, resp, lockVars, deployVars, toolVars>>

\* the positions of run() at which self.http_server is not yet assigned
NoServer == {"create_host", "start_host", "create_daemons", "start_daemons",
             "create_disks", "start_disks", "bind"}

\* CephadmDaemon.shutdown, run by the main thread when SIGTERM or SIGINT
\* arrives after run() has attached the handlers: stop is set, then
\* self.http_server.shutdown() raises AttributeError while the server
\* object does not exist, waits forever on the server's is_shut_down event
\* while serve_forever has not been started, and otherwise returns when
\* serve_forever has ended
shutdown ==
    /\ Alive
    /\ ~daemon.stop
    /\ daemon' = [daemon EXCEPT
                     !.stop = TRUE,
                     !.pc = IF @ \in NoServer THEN "crashed"
                            ELSE IF @ = "loop" THEN "loop"
                            ELSE "hung",
                     !.workers["http_server"] =
                         IF @ = "running" THEN "stopped" ELSE @]
    /\ UNCHANGED <<token, tasks, slots, resp, lockVars, deployVars, toolVars>>

\* serve_forever ends with an exception
serve_forever_fails ==
    /\ Serving
    /\ daemon' = [daemon EXCEPT !.workers["http_server"] = "failed"]
    /\ UNCHANGED <<token, tasks, slots, resp, lockVars, deployVars, toolVars>>

\* run(): the loop ends when the server thread is not alive or on self.stop
run_returns ==
    /\ daemon.pc = "loop"
    /\ daemon.workers["http_server"] # "running" \/ daemon.stop
    /\ daemon' = [daemon EXCEPT !.pc = "returned"]
    /\ UNCHANGED <<token, tasks, slots, resp, lockVars, deployVars, toolVars>>

\* Decorators.authorize with the token test left out
authorize_anyone(auth) == TRUE

\* Decorators.authorize: the wrapped handler runs only when the header
\* equals 'Bearer ' + server.token
authorize(auth) == auth = "Bearer " \o token

\* the last path component
Leaf(path) ==
    CASE path = "/v1/metadata" -> "metadata"
      [] path = "/v1/metadata/health" -> "health"
      [] path = "/v1/metadata/disks" -> "disks"
      [] path = "/v1/metadata/daemons" -> "daemons"
      [] path = "/v1/metadata/host" -> "host"
      [] OTHER -> "-"

\* the status code of do_GET with http_server counted among the tasks
status_code_all_tasks(u) ==
    IF u = "metadata"
    THEN IF \A k \in task_types : tasks[k] = "inactive" THEN 500
         ELSE IF \E k \in task_types : tasks[k] = "inactive" THEN 206
         ELSE 200
    ELSE IF u \in Scrapers /\ tasks[u] = "inactive" THEN 204
    ELSE 200

\* status code chosen by do_GET for a valid route
status_code(u) ==
    IF u = "metadata"
    THEN IF \A k \in Scrapers : tasks[k] = "inactive" THEN 500
         ELSE IF \E k \in Scrapers : tasks[k] = "inactive" THEN 206
         ELSE 200
    ELSE IF u \in Scrapers /\ tasks[u] = "inactive" THEN 204
    ELSE 200

\* the cache content do_GET dumps for a slot route
slot_data(u) == IF u \in Scrapers THEN slots[u] ELSE "-"

\* CephadmDaemonHandler.do_GET behind Decorators.authorize; the handler
\* thread reads tasks and the slot from the cache without taking its lock
do_GET(path, auth) ==
    /\ Serving
    /\ resp' = IF ~authorize(auth)
               THEN [path |-> path, auth |-> auth, status |-> 401,
                     body |-> "error", data |-> "-"]
               ELSE IF path = "/"
               THEN [path |-> path, auth |-> auth, status |-> 200,
                     body |-> "index", data |-> "-"]
               ELSE IF path \in valid_routes
               THEN [path |-> path, auth |-> auth,
                     status |-> status_code(Leaf(path)),
                     body |-> Leaf(path), data |-> slot_data(Leaf(path))]
               ELSE [path |-> path, auth |-> auth, status |-> 404,
                     body |-> "message", data |-> "-"]
    /\ UNCHANGED <<token, tasks, slots, daemon, lockVars, deployVars, toolVars>>

InitExporter ==
    /\ LockIdle
    /\ HttpIdle
    /\ ToolIdle
    /\ DeployIdle

NextExporter ==
    \/ \E crt \in PemFiles, key \in PemFiles, t \in TokenFiles,
          busy \in BOOLEAN : exporter_run(crt, key, t, busy)
    \/ \E name \in task_types : _create_thread(name)
    \/ thread_start("host", "create_daemons")
    \/ thread_start("daemons", "create_disks")
    \/ thread_start("disks", "bind")
    \/ server_bind
    \/ wrap_socket
    \/ thread_start("http_server", "loop")
    \/ \E k \in Scrapers : scrape(k)
    \/ \E k \in Scrapers : update_task(k)
    \/ \E k \in Scrapers : _handle_thread_exception(k)
    \/ \E k \in Scrapers : scraper_stops(k)
    \/ run_check
    \/ shutdown
    \/ serve_forever_fails
    \/ run_returns
    \/ \E path \in Paths, auth \in Headers : do_GET(path, auth)

SpecExporter == InitExporter /\ [][NextExporter]_vars

Answered == resp.path # "-"
ValidAuth(r) == r.auth = "Bearer " \o token
CacheBodies == {"metadata", "health", "disks", "daemons", "host"}

\* C3 as claimed: a GET is served without a valid Authorization header if
\* and only if its path is the HTML index: unauthorized /v1/* requests get
\* 401 and no cache content, an unauthorized GET / gets the index with 200.
C3_Original ==
    (Answered /\ ~ValidAuth(resp)) =>
        IF resp.path = "/"
        THEN resp.status = 200 /\ resp.body = "index"
        ELSE resp.status = 401 /\ resp.body \notin CacheBodies

\* C3 as amended: every GET, the HTML index included, whose Authorization
\* header is missing or differs from 'Bearer <token>' receives 401 and
\* neither cache content nor the index; with the valid header GET / returns
\* the index with 200.
C3_AuthRequired ==
    Answered =>
        /\ ~ValidAuth(resp) =>
              resp.status = 401 /\ resp.body \notin CacheBodies \cup {"index"}
        /\ (ValidAuth(resp) /\ resp.path = "/") =>
              resp.status = 200 /\ resp.body = "index"
        /\ ValidAuth(resp) => resp.status # 401

\* the index was requested without a header and refused
C3_Witness ==
    /\ Answered
    /\ resp.path = "/"
    /\ resp.auth = NoHeader
    /\ resp.status = 401

\* ------------------------------------------------------------------------
\* The deploy engine: command_deploy, deploy_daemon, deploy_daemon_units,
\* CephadmDaemon.deploy_daemon_unit.  The agent is single-threaded; each
\* action is one stretch of the handler between two points at which the
\* process can be killed with a different result on disk.

At(l) == inv.pc = l
Goto(l) == inv' = [inv EXCEPT !.pc = l]
\* the process of the invocation ends: what is left of it is the command
\* and how it ended
Ended(how) ==
    [Idle EXCEPT !.n = inv.n, !.op = inv.op, !.result = how]
\* the invocation ends by raising
Fail(reason) == inv' = Ended(reason)
\* the invocation returns
Done == inv' = Ended("ok")
Put(name, f) == dir' = [dir EXCEPT !.files[name] = f]
Has(name) == dir.exists /\ dir.files[name].st # "absent"
\* the mode of a file after open(path, 'w'): an existing file keeps its
\* mode, a new one gets 0666 masked by the umask
OpenMode(name) ==
    IF dir.files[name].st = "absent" THEN "0644" ELSE dir.files[name].mode
\* open(path, 'w'): create or truncate; nothing is on disk yet
Opened(name, mt) ==
    [st |-> "empty", mode |-> OpenMode(name), mtime |-> mt, img |-> "-",
     ports |-> {}]

\* daemon_ports of command_deploy
daemon_ports(reconfig, redeploy, tcp_ports) ==
    LET declared == IF ~reconfig /\ ~redeploy THEN tcp_ports ELSE {}
    IN  IF kind = "nfs" /\ ~reconfig /\ ~redeploy /\ declared = {}
        THEN {NfsPort}
        ELSE IF kind = "cephadm-exporter" /\ declared = {}
        THEN {ExporterPort}
        ELSE declared

\* command_deploy up to the call of deploy_daemon: the unit state decides
\* redeploy, the ports to check and open are chosen, and for the kinds of
\* Ceph.daemons make_var_run creates /var/run/ceph/<fsid>.  ok: the
\* container and install commands run here succeeded; busy: those of the
\* ports named by the invocation that are in use on the host; meta_ports:
\* the ports of --meta-json, which only deploy_daemon_units reads.
command_deploy(reconfig, image, tcp_ports, meta_ports, busy, ok) ==
    /\ At("idle")
    /\ LET redeploy == sys.active
           ports == daemon_ports(reconfig, redeploy, tcp_ports)
       IN  /\ inv' = IF ok
                     THEN [pc |-> "d_check",
                           n |-> inv.n + 1,
                           op |-> "deploy", result |-> "-",
                           reconfig |-> reconfig, image |-> image,
                           declared |-> tcp_ports,
                           ports |-> ports, inuse |-> busy,
                           redeploy |-> redeploy, warned |-> FALSE,
                           meta |-> IF reconfig \/ kind = "cephadm-exporter"
                                    THEN {} ELSE meta_ports,
                           fdd |-> FALSE]
                     ELSE [Idle EXCEPT !.n = inv.n + 1,
                                       !.op = "deploy", !.result = "error"]
           /\ sys' = IF ok /\ kind \in CephDaemons
                     THEN [sys EXCEPT !.varRun = TRUE] ELSE sys
    /\ UNCHANGED <<kind, fwAvail, now, dir, removed, lockVars, httpVars, toolVars>>

\* the port test of deploy_daemon without the exception for mgr
PortFatal_strict == inv.ports \cap inv.inuse # {}

\* deploy_daemon without the port test
PortFatal_never == FALSE

\* deploy_daemon: a port in use is fatal unless the daemon is a mgr
PortFatal == inv.ports \cap inv.inuse # {} /\ kind # "mgr"

\* deploy_daemon, entry: port test and the reconfig test of the data dir.
\* A port in use that is not fatal is logged as a warning.  Nothing after
\* the test reads --tcp-ports, the unit state found by command_deploy or
\* the bound ports again, so the invocation carries them no further.
deploy_check ==
    /\ At("d_check")
    /\ IF PortFatal THEN Fail("port_in_use")
       ELSE IF inv.reconfig /\ ~dir.exists THEN Fail("error")
       ELSE inv' = [inv EXCEPT !.pc = "d_dirs",
                               !.warned = inv.ports \cap inv.inuse # {},
                               !.declared = {}, !.inuse = {},
                               !.redeploy = FALSE]
    /\ UNCHANGED <<kind, fwAvail, now, dir, removed, sys, lockVars, httpVars, toolVars>>

\* the branch of deploy_daemon after the directories: unit files are
\* written only when the call is not a reconfig
AfterDirs_always == IF kind = "cephadm-exporter" THEN "x_config" ELSE "u_open"

AfterDirs ==
    IF ~inv.reconfig
    THEN IF kind = "cephadm-exporter" THEN "x_config" ELSE "u_open"
    ELSE "d_created"

\* the test before the mkfs container, were the data directory not looked
\* at
NeedsMkfs_any_dir == kind = "mon"

\* deploy_daemon: daemon_type == 'mon' and not os.path.exists(data_dir)
NeedsMkfs == kind = "mon" /\ ~dir.exists

\* create_daemon_dirs (and for a first mon the mkfs container): the data
\* directory is made, config and keyring are written with mode 0600
deploy_dirs(ok) ==
    /\ At("d_dirs")
    /\ LET mkfs == NeedsMkfs
       IN  /\ dir' = [exists |-> TRUE,
                      mkfs |-> IF ~mkfs THEN dir.mkfs
                               ELSE IF dir.mkfs = "never" THEN "once"
                               ELSE "again",
                      files |-> IF kind \in CephDaemons \cup {"nfs"}
                                   /\ (mkfs => ok)
                                THEN [dir.files EXCEPT !["config"] =
                                        [st |-> "full", mode |-> "0600",
                                         mtime |-> 0, img |-> "-",
                                         ports |-> {}]]
                                ELSE dir.files]
           /\ IF mkfs /\ ~ok THEN Fail("error") ELSE Goto(AfterDirs)
    /\ UNCHANGED <<kind, fwAvail, now, removed, sys, lockVars, httpVars, toolVars>>

\* deploy_daemon_units: open unit.run.new and unit.meta.new
units_open ==
    /\ At("u_open")
    /\ dir' = [dir EXCEPT !.files["unit.run.new"] = Opened("unit.run.new", 0),
                          !.files["unit.meta.new"] = Opened("unit.meta.new", 0)]
    /\ Goto("u_write")
    /\ UNCHANGED <<kind, fwAvail, now, removed, sys, lockVars, httpVars, toolVars>>

\* the writes to both files, which stay in the buffers unless the script
\* outgrows its buffer, and the two fchmod calls
units_write(flushed) ==
    /\ At("u_write")
    /\ dir' = [dir EXCEPT !.files["unit.run.new"].st = flushed,
                          !.files["unit.run.new"].mode = "0600",
                          !.files["unit.meta.new"].mode = "0600"]
    /\ Goto("u_rename_run")
    /\ UNCHANGED <<kind, fwAvail, now, removed, sys, lockVars, httpVars, toolVars>>

\* os.rename(old, new) inside the data directory
Renamed(old, new) ==
    [dir EXCEPT !.files[new] = dir.files[old], !.files[old] = NoFile]

\* os.rename(unit.run.new, unit.run), inside the with block
units_rename_run ==
    /\ At("u_rename_run")
    /\ dir' = Renamed("unit.run.new", "unit.run")
    /\ Goto("u_rename_meta")
    /\ UNCHANGED <<kind, fwAvail, now, removed, sys, lockVars, httpVars, toolVars>>

\* os.rename(unit.meta.new, unit.meta), inside the with block
units_rename_meta ==
    /\ At("u_rename_meta")
    /\ dir' = Renamed("unit.meta.new", "unit.meta")
    /\ Goto("u_close_meta")
    /\ UNCHANGED <<kind, fwAvail, now, removed, sys, lockVars, httpVars, toolVars>>

\* meta['ports']: the ports of --meta-json, or daemon_ports if it has none
meta_ports_written == IF inv.meta # {} THEN inv.meta ELSE inv.ports

\* the with block ends: metaf is closed and its buffer reaches the file
units_close_meta ==
    /\ At("u_close_meta")
    /\ dir' = [dir EXCEPT !.files["unit.meta"].st = "full",
                          !.files["unit.meta"].ports = meta_ports_written]
    /\ Goto("u_close_run")
    /\ UNCHANGED <<kind, fwAvail, now, removed, sys, lockVars, httpVars, toolVars>>

\* the with block ends: f is closed and its buffer reaches the file
units_close_run ==
    /\ At("u_close_run")
    /\ dir' = [dir EXCEPT !.files["unit.run"].st = "full",
                          !.files["unit.run"].img = inv.image]
    /\ Goto("p_open")
    /\ UNCHANGED <<kind, fwAvail, now, removed, sys, lockVars, httpVars, toolVars>>

\* open unit.poststop.new; only an osd has commands to write into it, for
\* the other kinds the file is complete as soon as it exists
poststop_open ==
    /\ At("p_open")
    /\ Put("unit.poststop.new",
           [Opened("unit.poststop.new", 0) EXCEPT
               !.st = IF kind = "osd" THEN "empty" ELSE "full"])
    /\ Goto("p_rename")
    /\ UNCHANGED <<kind, fwAvail, now, removed, sys, lockVars, httpVars, toolVars>>

\* os.rename(unit.poststop.new, unit.poststop) without the fchmod
poststop_rename_nochmod ==
    /\ At("p_rename")
    /\ dir' = Renamed("unit.poststop.new", "unit.poststop")
    /\ Goto("p_close")
    /\ UNCHANGED <<kind, fwAvail, now, removed, sys, lockVars, httpVars, toolVars>>

\* fchmod and os.rename(unit.poststop.new, unit.poststop)
poststop_rename ==
    /\ At("p_rename")
    /\ dir' = [Renamed("unit.poststop.new", "unit.poststop") EXCEPT
                  !.files["unit.poststop"].mode = "0600"]
    /\ Goto("p_close")
    /\ UNCHANGED <<kind, fwAvail, now, removed, sys, lockVars, httpVars, toolVars>>

\* the with block of unit.poststop ends
poststop_close ==
    /\ At("p_close")
    /\ dir' = [dir EXCEPT !.files["unit.poststop"].st = "full"]
    /\ Goto("i_open")
    /\ UNCHANGED <<kind, fwAvail, now, removed, sys, lockVars, httpVars, toolVars>>

\* open unit.image.new
image_open ==
    /\ At("i_open")
    /\ Put("unit.image.new", Opened("unit.image.new", 0))
    /\ Goto("i_rename")
    /\ UNCHANGED <<kind, fwAvail, now, removed, sys, lockVars, httpVars, toolVars>>

\* unit.image written by copying unit.image.new, which stays behind
image_rename_copy ==
    /\ At("i_rename")
    /\ dir' = [dir EXCEPT !.files["unit.image"] =
                  [dir.files["unit.image.new"] EXCEPT !.mode = "0600"]]
    /\ Goto("i_close")
    /\ UNCHANGED <<kind, fwAvail, now, removed, sys, lockVars, httpVars, toolVars>>

\* write (buffered), fchmod and os.rename(unit.image.new, unit.image)
image_rename ==
    /\ At("i_rename")
    /\ dir' = [Renamed("unit.image.new", "unit.image") EXCEPT
                  !.files["unit.image"].mode = "0600"]
    /\ Goto("i_close")
    /\ UNCHANGED <<kind, fwAvail, now, removed, sys, lockVars, httpVars, toolVars>>

\* the with block of unit.image ends, had the file been given a fixed
\* default image instead of c.image
image_close_default ==
    /\ At("i_close")
    /\ dir' = [dir EXCEPT !.files["unit.image"].st = "full",
                          !.files["unit.image"].img = "imgA"]
    /\ Goto("u_units")
    /\ UNCHANGED <<kind, fwAvail, now, removed, sys, lockVars, httpVars, toolVars>>

\* the with block of unit.image ends, had the stop, enable and start of the
\* unit come before install_base_units and the template unit
image_close_then_start ==
    /\ At("i_close")
    /\ dir' = [dir EXCEPT !.files["unit.image"].st = "full",
                          !.files["unit.image"].img = inv.image]
    /\ Goto("u_stop")
    /\ UNCHANGED <<kind, fwAvail, now, removed, sys, lockVars, httpVars, toolVars>>

\* the with block of unit.image ends
image_close ==
    /\ At("i_close")
    /\ dir' = [dir EXCEPT !.files["unit.image"].st = "full",
                          !.files["unit.image"].img = inv.image]
    /\ Goto("u_units")
    /\ UNCHANGED <<kind, fwAvail, now, removed, sys, lockVars, httpVars, toolVars>>

BaseUnits == {"ceph.target", "ceph-F1.target"}
TemplateUnit == "ceph-F1@.service"
ExporterUnit == "ceph-F1-cephadm-exporter.a.service"

\* install_sysctl, install_base_units, the template unit written through
\* .new and rename, systemctl daemon-reload; a failing systemctl call of
\* install_base_units leaves only the targets behind
units_install(ok) ==
    /\ At("u_units")
    /\ sys' = [sys EXCEPT !.unitFiles =
                  @ \cup BaseUnits \cup (IF ok THEN {TemplateUnit} ELSE {})]
    /\ IF ok THEN Goto("u_stop") ELSE Fail("error")
    /\ UNCHANGED <<kind, fwAvail, now, dir, removed, lockVars, httpVars, toolVars>>

\* systemctl stop and reset-failed of the unit, results ignored
units_stop ==
    /\ At("u_stop")
    /\ sys' = [sys EXCEPT !.active = FALSE]
    /\ Goto("u_enable")
    /\ UNCHANGED <<kind, fwAvail, now, dir, removed, lockVars, httpVars, toolVars>>

\* call_throws systemctl enable
units_enable(ok) ==
    /\ At("u_enable")
    /\ sys' = [sys EXCEPT !.enabled = IF ok THEN TRUE ELSE @]
    /\ IF ok THEN Goto("u_start") ELSE Fail("error")
    /\ UNCHANGED <<kind, fwAvail, now, dir, removed, lockVars, httpVars, toolVars>>

\* call_throws systemctl start
units_start(ok) ==
    /\ At("u_start")
    /\ sys' = [sys EXCEPT !.active = IF ok THEN TRUE ELSE @]
    /\ IF ok THEN Goto("d_created") ELSE Fail("error")
    /\ UNCHANGED <<kind, fwAvail, now, dir, removed, lockVars, httpVars, toolVars>>

\* CephadmDaemon.deploy_daemon_unit: the config files (crt, key, token)
\* are created with mode 0600, the binary is copied
exporter_config ==
    /\ At("x_config")
    /\ Put("config", [st |-> "full",
                      mode |-> IF Has("config") THEN dir.files["config"].mode
                               ELSE "0600",
                      mtime |-> 0, img |-> "-", ports |-> {}])
    /\ Goto("x_run_open")
    /\ UNCHANGED <<kind, fwAvail, now, removed, sys, lockVars, httpVars, toolVars>>

\* open(unit.run, 'w') on the file itself
exporter_run_open ==
    /\ At("x_run_open")
    /\ Put("unit.run", Opened("unit.run", 0))
    /\ Goto("x_run_close")
    /\ UNCHANGED <<kind, fwAvail, now, removed, sys, lockVars, httpVars, toolVars>>

\* the with block of unit.run ends; the script names the port, no image
exporter_run_close ==
    /\ At("x_run_close")
    /\ dir' = [dir EXCEPT !.files["unit.run"].st = "full",
                          !.files["unit.run"].ports = inv.ports]
    /\ Goto("x_units")
    /\ UNCHANGED <<kind, fwAvail, now, removed, sys, lockVars, httpVars, toolVars>>

\* the exporter's own unit file through .new and rename, daemon-reload
exporter_units(ok) ==
    /\ At("x_units")
    /\ sys' = [sys EXCEPT !.unitFiles = @ \cup {ExporterUnit}]
    /\ IF ok THEN Goto("x_stop") ELSE Fail("error")
    /\ UNCHANGED <<kind, fwAvail, now, dir, removed, lockVars, httpVars, toolVars>>

\* systemctl stop and reset-failed of the exporter unit, results ignored
exporter_stop ==
    /\ At("x_stop")
    /\ sys' = [sys EXCEPT !.active = FALSE]
    /\ Goto("x_enable")
    /\ UNCHANGED <<kind, fwAvail, now, dir, removed, lockVars, httpVars, toolVars>>

\* call_throws systemctl enable --now
exporter_enable(ok) ==
    /\ At("x_enable")
    /\ sys' = [sys EXCEPT !.enabled = IF ok THEN TRUE ELSE @,
                          !.active = IF ok THEN TRUE ELSE @]
    /\ IF ok THEN Goto("d_created") ELSE Fail("error")
    /\ UNCHANGED <<kind, fwAvail, now, dir, removed, lockVars, httpVars, toolVars>>

\* the test before unit.created is written, left out
CreatedMissing_always == TRUE

\* deploy_daemon: not os.path.exists(data_dir + '/unit.created')
CreatedMissing == ~Has("unit.created")

\* open(unit.created, 'w') when the file does not exist
created_open ==
    /\ At("d_created")
    /\ IF CreatedMissing
       THEN /\ Put("unit.created", Opened("unit.created", now))
            /\ Goto("d_created_close")
       ELSE /\ UNCHANGED dir
            /\ Goto("d_conf_open")
    /\ UNCHANGED <<kind, fwAvail, now, removed, sys, lockVars, httpVars, toolVars>>

\* fchmod, fchown, write; the with block of unit.created ends
created_close ==
    /\ At("d_created_close")
    /\ Put("unit.created", [st |-> "full", mode |-> "0600", mtime |-> now,
                            img |-> "-", ports |-> {}])
    /\ Goto("d_conf_open")
    /\ UNCHANGED <<kind, fwAvail, now, removed, sys, lockVars, httpVars, toolVars>>

\* open(unit.configured, 'w') on the file itself
configured_open ==
    /\ At("d_conf_open")
    /\ Put("unit.configured", Opened("unit.configured", now))
    /\ Goto("d_conf_close")
    /\ UNCHANGED <<kind, fwAvail, now, removed, sys, lockVars, httpVars, toolVars>>

\* write, fchmod, fchown; the with block of unit.configured ends
configured_close ==
    /\ At("d_conf_close")
    /\ Put("unit.configured", [st |-> "full", mode |-> "0600",
                               mtime |-> now, img |-> "-", ports |-> {}])
    /\ Goto("d_fw")
    /\ UNCHANGED <<kind, fwAvail, now, removed, sys, lockVars, httpVars, toolVars>>

\* Firewalld.enable_service_for: the service of the daemon type
FwService ==
    IF kind = "mon" THEN {"ceph-mon"}
    ELSE IF kind \in {"mgr", "mds", "osd"} THEN {"ceph"}
    ELSE IF kind = "nfs" THEN {"nfs"}
    ELSE {}

\* deploy_daemon without the call of Firewalld.open_ports
deploy_firewall_noports(ok) ==
    /\ At("d_fw")
    /\ IF ~fwAvail
       THEN /\ UNCHANGED sys
            /\ IF inv.reconfig /\ kind \notin CephDaemons
               THEN Goto("d_restart") ELSE Done
       ELSE /\ sys' = [sys EXCEPT !.fwServices = @ \cup FwService]
            /\ IF ~ok THEN Fail("error")
               ELSE IF inv.reconfig /\ kind \notin CephDaemons
               THEN Goto("d_restart") ELSE Done
    /\ UNCHANGED <<kind, fwAvail, now, dir, removed, lockVars, httpVars, toolVars>>

\* deploy_daemon with a Firewalld whose methods do not look at
\* self.available
deploy_firewall_unchecked(ok) ==
    /\ At("d_fw")
    /\ sys' = [sys EXCEPT
                  !.fwServices = @ \cup FwService,
                  !.fwPorts = IF ok THEN @ \cup inv.ports ELSE @]
    /\ IF ~ok THEN Fail("error")
       ELSE IF inv.reconfig /\ kind \notin CephDaemons
       THEN Goto("d_restart") ELSE Done
    /\ UNCHANGED <<kind, fwAvail, now, dir, removed, lockVars, httpVars, toolVars>>

\* deploy_daemon, had every reconfigure ended with the restart of the unit
deploy_firewall_restart_all(ok) ==
    /\ At("d_fw")
    /\ IF ~fwAvail
       THEN /\ UNCHANGED sys
            /\ IF inv.reconfig THEN Goto("d_restart") ELSE Done
       ELSE /\ sys' = [sys EXCEPT
                         !.fwServices = @ \cup FwService,
                         !.fwPorts = IF ok THEN @ \cup inv.ports ELSE @]
            /\ IF ~ok THEN Fail("error")
               ELSE IF inv.reconfig THEN Goto("d_restart") ELSE Done
    /\ UNCHANGED <<kind, fwAvail, now, dir, removed, lockVars, httpVars, toolVars>>

\* update_firewalld, then Firewalld.open_ports and apply_rules for the
\* ports; without firewalld every call returns at once.  A failing
\* firewall-cmd raises after the service has been added.
deploy_firewall(ok) ==
    /\ At("d_fw")
    /\ IF ~fwAvail
       THEN /\ UNCHANGED sys
            /\ IF inv.reconfig /\ kind \notin CephDaemons
               THEN Goto("d_restart") ELSE Done
       ELSE /\ sys' = [sys EXCEPT
                         !.fwServices = @ \cup FwService,
                         !.fwPorts = IF ok THEN @ \cup inv.ports ELSE @]
            /\ IF ~ok THEN Fail("error")
               ELSE IF inv.reconfig /\ kind \notin CephDaemons
               THEN Goto("d_restart") ELSE Done
    /\ UNCHANGED <<kind, fwAvail, now, dir, removed, lockVars, httpVars, toolVars>>

\* reconfig of a daemon outside Ceph.daemons: reset-failed and restart
deploy_restart(ok) ==
    /\ At("d_restart")
    /\ sys' = [sys EXCEPT !.active = IF ok THEN TRUE ELSE @]
    /\ IF ok THEN Done ELSE Fail("error")
    /\ UNCHANGED <<kind, fwAvail, now, dir, removed, lockVars, httpVars, toolVars>>

\* ------------------------------------------------------------------------
\* command_rm_daemon

Precious == {"mon", "osd", "prometheus"}

\* command_rm_daemon without the test of --force
command_rm_daemon_unforced(force, force_delete_data) ==
    /\ At("idle")
    /\ inv' = IF ~dir.exists
              THEN [Idle EXCEPT !.n = inv.n + 1,
                                !.op = "rm", !.result = "error"]
              ELSE [Idle EXCEPT !.n = inv.n + 1,
                                !.op = "rm", !.fdd = force_delete_data,
                                !.pc = "r_units"]
    /\ UNCHANGED <<kind, fwAvail, now, dir, removed, sys, lockVars, httpVars, toolVars>>

\* command_rm_daemon up to the first systemctl call: the daemon must be
\* listed (its directory exists), and a mon or osd needs --force
command_rm_daemon(force, force_delete_data) ==
    /\ At("idle")
    /\ inv' = IF ~dir.exists \/ (kind \in {"mon", "osd"} /\ ~force)
              THEN [Idle EXCEPT !.n = inv.n + 1,
                                !.op = "rm", !.result = "error"]
              ELSE [Idle EXCEPT !.n = inv.n + 1,
                                !.op = "rm", !.fdd = force_delete_data,
                                !.pc = "r_units"]
    /\ UNCHANGED <<kind, fwAvail, now, dir, removed, sys, lockVars, httpVars, toolVars>>

\* the systemctl calls of command_rm_daemon, were the unit files of the
\* cluster removed with the unit
rm_units_purge(stopped, disabled) ==
    /\ At("r_units")
    /\ sys' = [sys EXCEPT !.active = FALSE, !.enabled = FALSE,
                          !.unitFiles = {}]
    /\ Goto("r_data")
    /\ UNCHANGED <<kind, fwAvail, now, dir, removed, lockVars, httpVars, toolVars>>

\* the systemctl calls of command_rm_daemon, were the data directory
\* deleted before them
rm_units_data_first(stopped, disabled) ==
    /\ At("r_units")
    /\ sys' = [sys EXCEPT !.active = IF stopped THEN FALSE ELSE @,
                          !.enabled = IF disabled THEN FALSE ELSE @]
    /\ dir' = NoDir
    /\ Goto("r_data")
    /\ UNCHANGED <<kind, fwAvail, now, removed, lockVars, httpVars, toolVars>>

\* systemctl stop, reset-failed, disable of the unit through call(), which
\* returns the exit status instead of raising: the status is not looked at,
\* so a stop or a disable that fails (stopped, disabled: whether they took
\* effect) leaves the unit as it was and the removal goes on
rm_units(stopped, disabled) ==
    /\ At("r_units")
    /\ sys' = [sys EXCEPT !.active = IF stopped THEN FALSE ELSE @,
                          !.enabled = IF disabled THEN FALSE ELSE @]
    /\ Goto("r_data")
    /\ UNCHANGED <<kind, fwAvail, now, dir, removed, lockVars, httpVars, toolVars>>

\* the kinds and flag for which the directory is deleted, were the flag
\* ignored
KeepsData_never == FALSE

\* command_rm_daemon: the directory is renamed out of the way, not deleted
KeepsData == kind \in Precious /\ ~inv.fdd

\* the directory of removed/ that carries the name chosen for this removal
SameName == {r \in removed : r.ts = now}

\* rm-daemon of the exporter without the call of CephadmDaemon.uninstall
Uninstalled_nothing == sys

\* CephadmDaemon.uninstall: the port is read from unit.run and closed, the
\* exporter's unit file is removed; nothing is done without unit.run
Uninstalled ==
    IF kind = "cephadm-exporter" /\ Has("unit.run")
    THEN [sys EXCEPT !.unitFiles = @ \ {ExporterUnit},
                     !.fwPorts = IF fwAvail
                                 THEN @ \ dir.files["unit.run"].ports
                                 ELSE @]
    ELSE sys

\* the data directory is moved to removed/<kind>.<id>_<timestamp> (rename
\* fails on an existing non-empty directory of that name) or, with uninstall
\* for the exporter, removed by rm -rf
rm_data(ok) ==
    /\ At("r_data")
    /\ IF KeepsData
       THEN /\ UNCHANGED sys
            /\ IF \E r \in SameName :
                     \E n \in FileNames : r.files[n].st # "absent"
               THEN /\ UNCHANGED <<dir, removed>>
                    /\ Fail("error")
               ELSE /\ removed' = (removed \ SameName)
                                     \cup {[ts |-> now, files |-> dir.files]}
                    /\ dir' = NoDir
                    /\ Done
       ELSE /\ sys' = Uninstalled
            /\ UNCHANGED removed
            /\ IF ok THEN dir' = NoDir /\ Done
               ELSE UNCHANGED dir /\ Fail("error")
    /\ UNCHANGED <<kind, fwAvail, now, lockVars, httpVars, toolVars>>

\* ------------------------------------------------------------------------
\* The environment of the agent

\* the agent process is killed
Kill ==
    /\ ~At("idle")
    /\ inv' = Ended("killed")
    /\ UNCHANGED <<kind, fwAvail, now, dir, removed, sys, lockVars, httpVars, toolVars>>

\* the positions from which the agent next reads the clock or opens a file
\* whose modification time is kept; a tick between the open and the close
\* of such a file leads to the same files as a tick before the open
ClockReaders == {"d_created", "d_conf_open", "r_data"}

\* time passes; it is observed only by the steps that read the clock
Tick ==
    /\ now < MaxClock
    /\ inv.pc \in ClockReaders
    /\ now' = now + 1
    /\ UNCHANGED <<kind, fwAvail, dir, removed, sys, inv, lockVars, httpVars, toolVars>>

\* the daemon stops by itself; the agent reads the state of the unit only
\* in command_deploy
unit_exits ==
    /\ At("idle")
    /\ sys.active
    /\ sys' = [sys EXCEPT !.active = FALSE]
    /\ UNCHANGED <<kind, fwAvail, now, dir, removed, inv, lockVars, httpVars, toolVars>>

InitDeploy ==
    /\ LockIdle
    /\ HttpIdle
    /\ ToolIdle
    /\ \E k \in Kinds, fw \in BOOLEAN : FreshHost(k, fw)

NextDeploy ==
    \/ \E reconfig \in BOOLEAN, image \in Images, tcp_ports \in SUBSET TcpPorts,
          ok \in BOOLEAN :
          \E busy \in SUBSET (tcp_ports \cup
                           daemon_ports(reconfig, sys.active, tcp_ports)) :
             /\ inv.n < MaxOps
             /\ command_deploy(reconfig, image, tcp_ports, {}, busy, ok)
    \/ deploy_check
    \/ \E ok \in BOOLEAN : deploy_dirs(ok)
    \/ units_open
    \/ \E flushed \in {"empty", "partial"} : units_write(flushed)
    \/ units_rename_run
    \/ units_rename_meta
    \/ units_close_meta
    \/ units_close_run
    \/ poststop_open
    \/ poststop_rename
    \/ poststop_close
    \/ image_open
    \/ image_rename
    \/ image_close
    \/ \E ok \in BOOLEAN : units_install(ok)
    \/ units_stop
    \/ \E ok \in BOOLEAN : units_enable(ok)
    \/ \E ok \in BOOLEAN : units_start(ok)
    \/ exporter_config
    \/ exporter_run_open
    \/ exporter_run_close
    \/ \E ok \in BOOLEAN : exporter_units(ok)
    \/ exporter_stop
    \/ \E ok \in BOOLEAN : exporter_enable(ok)
    \/ created_open
    \/ created_close
    \/ configured_open
    \/ configured_close
    \/ \E ok \in BOOLEAN : deploy_firewall(ok)
    \/ \E ok \in BOOLEAN : deploy_restart(ok)
    \/ \E force \in BOOLEAN, fdd \in BOOLEAN :
          inv.n < MaxOps /\ command_rm_daemon(force, fdd)
    \/ \E stopped \in BOOLEAN, disabled \in BOOLEAN :
          rm_units(stopped, disabled)
    \/ \E ok \in BOOLEAN : rm_data(ok)
    \/ Kill
    \/ Tick
    \/ unit_exits

SpecDeploy == InitDeploy /\ [][NextDeploy]_vars

\* ------------------------------------------------------------------------
\* Sequences of invocations that run to their end: no invocation is killed
\* and every command an invocation runs succeeds, so an invocation fails
\* only where the agent itself refuses (a port in use, a reconfig without a
\* data directory, rm-daemon of a mon or osd without --force, an unknown
\* daemon).  --meta-json may carry ports.

NextSeq ==
    \/ \E reconfig \in BOOLEAN, image \in Images, tcp_ports \in SUBSET TcpPorts,
          meta_ports \in SUBSET TcpPorts :
          \E busy \in SUBSET (tcp_ports \cup
                           daemon_ports(reconfig, sys.active, tcp_ports)) :
             /\ inv.n < MaxSeq
             /\ command_deploy(reconfig, image, tcp_ports, meta_ports, busy,
                               TRUE)
    \/ deploy_check
    \/ deploy_dirs(TRUE)
    \/ units_open
    \/ units_write("empty")
    \/ units_rename_run
    \/ units_rename_meta
    \/ units_close_meta
    \/ units_close_run
    \/ poststop_open
    \/ poststop_rename
    \/ poststop_close
    \/ image_open
    \/ image_rename
    \/ image_close
    \/ units_install(TRUE)
    \/ units_stop
    \/ units_enable(TRUE)
    \/ units_start(TRUE)
    \/ exporter_config
    \/ exporter_run_open
    \/ exporter_run_close
    \/ exporter_units(TRUE)
    \/ exporter_stop
    \/ exporter_enable(TRUE)
    \/ created_open
    \/ created_close
    \/ configured_open
    \/ configured_close
    \/ deploy_firewall(TRUE)
    \/ deploy_restart(TRUE)
    \/ \E force \in BOOLEAN, fdd \in BOOLEAN :
          inv.n < MaxSeq /\ command_rm_daemon(force, fdd)
    \/ rm_units(TRUE, TRUE)
    \/ rm_data(TRUE)
    \/ Tick
    \/ unit_exits

SpecSeq == InitDeploy /\ [][NextSeq]_vars

TypeDeploy ==
    /\ kind \in Kinds
    /\ now \in 0..MaxClock
    /\ dir.exists \in BOOLEAN

\* ------------------------------------------------------------------------
\* Properties of the deploy engine

Markers == {"unit.run", "unit.meta", "unit.poststop", "unit.image",
            "unit.created", "unit.configured"}
\* a step of the running invocation (the environment leaves inv alone)
AgentStep == inv' # inv
\* the step in which a deploy returns
DeployReturns == inv.op = "deploy" /\ ~At("idle") /\ inv'.pc = "idle"
                    /\ inv'.result = "ok"
\* the step in which an rm-daemon returns
RmReturns == inv.op = "rm" /\ ~At("idle") /\ inv'.pc = "idle"
                /\ inv'.result = "ok"
FullWith(d, name, mode) ==
    d.exists /\ d.files[name].st = "full" /\ d.files[name].mode = mode

\* C2: when the agent process has died during a deploy, each marker file is
\* absent or complete, never empty or partly written.
C2_AtomicMarkers ==
    (At("idle") /\ inv.op = "deploy" /\ inv.result = "killed") =>
        \A n \in Markers : dir.files[n].st \in {"absent", "full"}

\* C4 as claimed: a deploy without reconfig, of a kind other than mgr, with
\* a declared port in use never gets past the port test and no step of it
\* changes the directory, the removed directories, or the init-system, unit
\* file and firewall state.
Occupied(i) ==
    /\ i.op = "deploy" /\ i.pc # "idle" /\ ~i.reconfig /\ kind # "mgr"
    /\ i.declared \cap i.inuse # {}

C4_Original ==
    [][(AgentStep /\ (Occupied(inv) \/ Occupied(inv'))) =>
          /\ inv'.pc \in {"d_check", "idle"}
          /\ UNCHANGED <<dir, removed, sys>>]_vars

\* C4 as amended: a deploy without reconfig, of a kind other than mgr and of
\* a daemon that is not running (no redeploy), with a declared port in use
\* ends at the port test with the port error; deploy_daemon changes nothing,
\* and all the invocation has changed is /var/run/ceph/<fsid>.
OccupiedFresh(i) == Occupied(i) /\ ~i.redeploy

C4_PortCheck ==
    [][(AgentStep /\ (OccupiedFresh(inv) \/ OccupiedFresh(inv'))) =>
          /\ inv'.pc \in {"d_check", "idle"}
          /\ (At("d_check") => inv'.result \in {"port_in_use", "killed"})
          /\ UNCHANGED <<dir, removed>>
          /\ [sys' EXCEPT !.varRun = sys.varRun] = sys
          /\ (At("d_check") => sys' = sys)]_vars

\* a prometheus deploy was refused for its port and left no directory
C4_Witness ==
    /\ kind = "prometheus"
    /\ At("idle") /\ inv.op = "deploy" /\ inv.result = "port_in_use"
    /\ ~dir.exists /\ ~sys.enabled /\ sys.unitFiles = {}

\* C5: a deploy of a mgr never fails for a port in use, and when such a
\* deploy with a port in use returns, the unit files are written with the
\* given image, the unit is enabled, unit.configured is rewritten,
\* unit.created exists and, with firewalld available, the ports are open.
C5_MgrPortWarning ==
    /\ [](kind = "mgr" => inv.result # "port_in_use")
    /\ [][(DeployReturns /\ kind = "mgr" /\ ~inv.reconfig /\ inv.warned) =>
            /\ \A n \in {"unit.run", "unit.meta", "unit.poststop",
                         "unit.image", "unit.configured"} :
                  FullWith(dir', n, "0600")
            /\ dir'.files["unit.created"].st # "absent"
            /\ dir'.files["unit.run"].img = inv.image
            /\ dir'.files["unit.image"].img = inv.image
            /\ TemplateUnit \in sys'.unitFiles
            /\ sys'.enabled
            /\ (fwAvail => (inv.ports \subseteq sys'.fwPorts
                              /\ "ceph" \in sys'.fwServices))]_vars

\* a mgr deploy with its port in use has written and started everything
C5_Witness ==
    /\ kind = "mgr" /\ At("d_fw") /\ ~inv.reconfig /\ inv.warned
    /\ sys.enabled /\ sys.active
    /\ FullWith(dir, "unit.configured", "0600")

\* C6: when rm-daemon returns, the directory is gone from its path; for a
\* mon, osd or prometheus without the data-destruction flag its files are
\* then under removed/ with the time of the removal in the name, and no step
\* of such an rm-daemon loses them; otherwise nothing was added to removed/.
C6_RmDaemonData ==
    [][/\ RmReturns =>
            /\ ~dir'.exists
            /\ IF kind \in Precious /\ ~inv.fdd
               THEN /\ [ts |-> now, files |-> dir.files] \in removed'
                    /\ \A r \in removed :
                          r \in removed' \/
                             \A n \in FileNames : r.files[n].st = "absent"
               ELSE removed' = removed
       /\ (inv.op = "rm" /\ kind \in Precious /\ ~inv.fdd /\ dir.exists) =>
             \/ dir' = dir
             \/ \E r \in removed' : r.files = dir.files]_vars

\* a deployed osd was removed and its directory is kept under removed/
C6_Witness ==
    /\ At("idle") /\ inv.op = "rm" /\ inv.result = "ok" /\ ~dir.exists
    /\ kind = "osd" /\ \E r \in removed : r.files["unit.run"].st = "full"

\* C7: while the data directory persists, an existing unit.created is never
\* written again: the only step that changes it is the close that ends its
\* one creation.
C7_CreatedOnce ==
    [][(dir.exists /\ dir'.exists /\ Has("unit.created")) =>
          \/ dir'.files["unit.created"] = dir.files["unit.created"]
          \/ At("d_created_close") /\ dir.files["unit.created"].st = "empty"
       ]_vars

\* a second deploy has passed unit.created, written at an earlier time
C7_Witness ==
    /\ inv.n = 2 /\ inv.op = "deploy" /\ At("d_conf_open")
    /\ FullWith(dir, "unit.created", "0600")
    /\ dir.files["unit.created"].mtime < now

C10_CreatedBeforeConfigured ==
    (At("idle") /\ Has("unit.configured")) =>
        /\ Has("unit.created")
        /\ dir.files["unit.created"].mtime <= dir.files["unit.configured"].mtime

\* after two successful operations unit.configured is younger
C10_Witness ==
    /\ At("idle") /\ inv.n = 2 /\ inv.result = "ok"
    /\ Has("unit.created") /\ Has("unit.configured")
    /\ dir.files["unit.created"].mtime < dir.files["unit.configured"].mtime

\* C11: when a deploy without reconfig of a container daemon returns,
\* unit.image and unit.run are complete and name the same image, the one of
\* the invocation; no step of a reconfigure changes either file.  Hence
\* after any sequence of successful deploys the two files agree.
C11_ImageMatches ==
    [][/\ (DeployReturns /\ ~inv.reconfig /\ kind # "cephadm-exporter") =>
            /\ dir'.files["unit.run"].st = "full"
            /\ dir'.files["unit.image"].st = "full"
            /\ dir'.files["unit.image"].img = dir'.files["unit.run"].img
            /\ dir'.files["unit.image"].img = inv.image
       /\ (inv.op = "deploy" /\ ~At("idle") /\ inv.reconfig) =>
            /\ dir'.files["unit.run"] = dir.files["unit.run"]
            /\ dir'.files["unit.image"] = dir.files["unit.image"]]_vars

\* a second deploy, with the other image, has rewritten both files
C11_Witness ==
    /\ inv.n = 2 /\ inv.op = "deploy" /\ ~inv.reconfig /\ At("d_fw")
    /\ inv.image = "imgB"
    /\ dir.files["unit.image"].img = "imgB"
    /\ dir.files["unit.run"].img = "imgB"
    /\ dir.files["unit.created"].mtime < dir.files["unit.configured"].mtime

\* ------------------------------------------------------------------------
\* Properties of sequences of invocations

\* C12 as claimed: when a deploy returns on a host with firewalld, every
\* port listed in unit.meta is open in the firewall.
C12_Original ==
    [][(DeployReturns /\ fwAvail) =>
          dir'.files["unit.meta"].ports \subseteq sys'.fwPorts]_vars

\* C12 as amended: when a deploy returns on a host with firewalld, the
\* ports of the invocation (daemon_ports) are open; unit.meta is given the
\* ports of --meta-json, or daemon_ports when --meta-json names none, and no
\* step of a reconfigure changes unit.meta.
C12_PortsOpened ==
    [][/\ (DeployReturns /\ fwAvail) => inv.ports \subseteq sys'.fwPorts
       /\ (At("u_close_meta") /\ inv'.pc = "u_close_run") =>
             dir'.files["unit.meta"].ports =
                 IF inv.meta = {} THEN inv.ports ELSE inv.meta
       /\ (inv.op = "deploy" /\ ~At("idle") /\ inv.reconfig) =>
             dir'.files["unit.meta"] = dir.files["unit.meta"]]_vars

\* a first deploy has returned with its port in unit.meta and in the firewall
C12_Witness ==
    /\ fwAvail /\ At("idle") /\ inv.n = 1 /\ inv.op = "deploy"
    /\ inv.result = "ok"
    /\ dir.files["unit.meta"].ports = TcpPorts
    /\ TcpPorts \subseteq sys.fwPorts

\* ------------------------------------------------------------------------
\* Further properties of the deploy engine

NewSiblings == {"unit.run.new", "unit.meta.new", "unit.poststop.new",
                "unit.image.new"}

\* C13 as claimed: after a successful deploy, reconfigure included, no
\* <file>.new is in the data directory.
C13_Original ==
    (At("idle") /\ inv.op = "deploy" /\ inv.result = "ok") =>
        \A n \in NewSiblings : dir.files[n].st = "absent"

\* C13 as amended: when a deploy without reconfig returns, no <file>.new is
\* in the data directory; no step of a reconfigure creates or removes one.
C13_NoNewSiblings ==
    [][/\ (DeployReturns /\ ~inv.reconfig) =>
             \A n \in NewSiblings : dir'.files[n].st = "absent"
       /\ (inv.op = "deploy" /\ ~At("idle") /\ inv.reconfig) =>
             \A n \in NewSiblings : dir'.files[n] = dir.files[n]]_vars

\* a second deploy has returned and left the four files without siblings
C13_Witness ==
    /\ At("idle") /\ inv.n = 2 /\ inv.op = "deploy" /\ inv.result = "ok"
    /\ \A n \in {"unit.run", "unit.meta", "unit.poststop", "unit.image"} :
          dir.files[n].st = "full"
    /\ \A n \in NewSiblings : dir.files[n].st = "absent"

\* ------------------------------------------------------------------------
\* Laws of sequences of invocations

\* C14: the files of a data directory, and those a returned deploy of the
\* kind leaves in it
FileSet(d) == {n \in FileNames : d.files[n].st # "absent"}
DeployedFiles ==
    IF kind = "cephadm-exporter"
    THEN {"config", "unit.run", "unit.created", "unit.configured"}
    ELSE Markers \cup (IF kind = "prometheus" THEN {} ELSE {"config"})

\* C14: in sequences of successful invocations, a returning deploy leaves
\* the files of a deployed daemon and a returning reconfigure leaves the
\* same set, all of them complete; no step of a reconfigure changes
\* unit.created; and a reconfigure rewrites unit.configured with the time it
\* reads, never an earlier one than the file had.
C14_ReconfigKeepsFiles ==
    [][/\ DeployReturns =>
             /\ FileSet(dir') = DeployedFiles
             /\ \A n \in DeployedFiles : dir'.files[n].st = "full"
       /\ (inv.op = "deploy" /\ ~At("idle") /\ inv.reconfig) =>
             /\ dir'.files["unit.created"] = dir.files["unit.created"]
             /\ dir'.files["unit.configured"].mtime >=
                    dir.files["unit.configured"].mtime
       /\ (At("d_conf_open") /\ inv'.pc = "d_conf_close") =>
             dir'.files["unit.configured"].mtime = now]_vars

\* deploy(d); deploy(d, reconfig) is about to return: the files are those
\* of the deploy and unit.configured is younger than unit.created
C14_Witness ==
    /\ inv.n = 2 /\ inv.op = "deploy" /\ inv.reconfig /\ At("d_fw")
    /\ FileSet(dir) = DeployedFiles
    /\ dir.files["unit.configured"].st = "full"
    /\ dir.files["unit.created"].mtime = 0
    /\ dir.files["unit.configured"].mtime = 1

\* C15: the state a returned deploy without reconfig leaves behind, as far
\* as the invocation determines it, modification times left out
Timeless(d) ==
    [d EXCEPT !.files = [n \in FileNames |-> [d.files[n] EXCEPT !.mtime = 0]]]
Written(mode, img, ports) ==
    [st |-> "full", mode |-> mode, mtime |-> 0, img |-> img, ports |-> ports]
DeployedDir ==
    [exists |-> TRUE,
     mkfs |-> IF kind = "mon" THEN "once" ELSE "never",
     files |-> [n \in FileNames |->
        IF n \notin DeployedFiles THEN NoFile
        ELSE IF kind = "cephadm-exporter" /\ n = "unit.run"
        THEN Written("0644", "-", inv.ports)
        ELSE IF n \in {"unit.run", "unit.image"} /\ kind # "cephadm-exporter"
        THEN Written("0600", inv.image, {})
        ELSE IF n = "unit.meta"
        THEN Written("0600", "-",
                     IF inv.meta = {} THEN inv.ports ELSE inv.meta)
        ELSE Written("0600", "-", {})]]
DeployedUnits ==
    IF kind = "cephadm-exporter" THEN {ExporterUnit}
    ELSE BaseUnits \cup {TemplateUnit}
DeployedHost(s, t) ==
    /\ t.enabled /\ t.active
    /\ t.unitFiles = DeployedUnits
    /\ t.varRun = (kind \in CephDaemons)
    /\ t.fwServices = (IF fwAvail THEN FwService ELSE {})
    /\ t.fwPorts = (IF fwAvail THEN s.fwPorts \cup inv.ports ELSE {})
\* what rm-daemon leaves of the host state
RemovedHost(s, t) ==
    /\ ~t.enabled /\ ~t.active
    /\ t.varRun = s.varRun /\ t.fwServices = s.fwServices
    /\ IF kind = "cephadm-exporter"
       THEN /\ t.unitFiles = {}
            /\ t.fwPorts = (IF fwAvail
                            THEN s.fwPorts \ dir.files["unit.run"].ports
                            ELSE s.fwPorts)
       ELSE /\ t.unitFiles = s.unitFiles
            /\ t.fwPorts = s.fwPorts

\* C15 as claimed: whenever a deploy without reconfig returns, after a
\* removal as after nothing, the directory, the host state and removed/ are
\* those of a single deploy.
C15_Original ==
    [][(DeployReturns /\ ~inv.reconfig) =>
          /\ Timeless(dir') = DeployedDir
          /\ DeployedHost(sys, sys')
          /\ removed' = {}]_vars

\* C15 as amended: whenever a deploy without reconfig returns, after a
\* removal as after nothing, the directory and the host state are those of
\* a single deploy with the ports of this invocation added to the open
\* ones; rm-daemon leaves the unit files, firewall rules and /var/run
\* directory of a container daemon and takes back the unit file of the
\* exporter and the port named in its unit.run;
\* removed/ stays empty for the kinds that are not kept, while a removal of
\* a mon, osd or prometheus without the flag has added a directory to it.
C15_RoundTrip ==
    [][/\ (DeployReturns /\ ~inv.reconfig) =>
             /\ Timeless(dir') = DeployedDir
             /\ DeployedHost(sys, sys')
             /\ (kind \notin Precious => removed' = {})
       /\ RmReturns =>
             /\ RemovedHost(sys, sys')
             /\ (kind \in Precious /\ ~inv.fdd) => removed' # {}
             /\ (kind \notin Precious \/ inv.fdd) => removed' = removed]_vars

\* deploy; rm-daemon; deploy of an osd has returned: the directory is that
\* of a deploy and the first directory is kept under removed/
C15_Witness ==
    /\ kind = "osd" /\ At("idle") /\ inv.n = 3 /\ inv.op = "deploy"
    /\ inv.result = "ok"
    /\ dir.files["unit.image"].st = "full"
    /\ removed # {}


\* ------------------------------------------------------------------------
\* Properties of the exporter's threads and responses

\* the scraper tasks that are inactive
Inactive == {k \in Scrapers : tasks[k] = "inactive"}

ScraperFails(k) ==
    daemon.workers[k] = "running" /\ daemon'.workers[k] = "failed"

\* C17 as claimed: a scraper that catches an exception marks its own task
\* inactive before it exits, so in every reachable state a scraper thread
\* that ended on a caught exception has tasks[slot] = 'inactive'.
C17_Original ==
    \A k \in Scrapers :
        (Alive /\ daemon.workers[k] = "failed") => tasks[k] = "inactive"

\* C17 as amended: a scraper that catches an exception stores the error in
\* its slot and ends without touching tasks; a scraper task goes from
\* active to inactive only in the thread check of run()'s loop, while the
\* server thread is alive and stop is not set, and that check marks every
\* scraper whose thread is not alive.
C17_MarkedByMainLoop ==
    [][\A k \in Scrapers :
          /\ ScraperFails(k) => tasks' = tasks /\ slots'[k] = "error"
          /\ (tasks[k] = "active" /\ tasks'[k] = "inactive") =>
                /\ Serving
                /\ ~daemon.stop
                /\ daemon.workers[k] # "running"
                /\ \A j \in Scrapers :
                      daemon.workers[j] # "running" =>
                          tasks'[j] = "inactive"]_vars

\* the disks scraper ended on an exception, the loop marked it, and a GET
\* of its slot answered 204
C17_Witness ==
    /\ Alive
    /\ daemon.workers["disks"] = "failed"
    /\ tasks["disks"] = "inactive"
    /\ resp.path = "/v1/metadata/disks"
    /\ resp.status = 204


\* C18 (I6): in every reachable state of the running exporter,
\* tasks['http_server'] is 'active' if and only if the serve_forever thread
\* is alive, the states before the thread is started and after it has
\* stopped through shutdown or failure included.
C18_ServerTaskMatchesThread ==
    Alive => (tasks["http_server"] = "active" <=>
                  daemon.workers["http_server"] = "running")

\* the same, for the states after the server thread has ended only
C18_AfterServerEnded ==
    (Alive /\ daemon.workers["http_server"] \in {"stopped", "failed"}) =>
        tasks["http_server"] = "inactive"


\* the last GET was an authorized GET of a scraper's slot
SlotServed ==
    /\ Answered
    /\ ValidAuth(resp)
    /\ resp.body \in Scrapers

Entered == daemon.pc # "new"

\* nothing of the exporter has been started: no thread, no socket, no task
\* active
NothingStarted ==
    /\ \A k \in task_types : daemon.workers[k] = "unstarted"
    /\ \A k \in task_types : tasks[k] = "inactive"
    /\ daemon.socket = "none"

\* a startup precondition of the claim fails
PreconditionFails ==
    \/ daemon.crt = "missing"
    \/ daemon.key = "missing"
    \/ token = "Unknown"
    \/ Len(token) < 8
    \/ daemon.crt = "nopem"
    \/ daemon.key = "nopem"
    \/ daemon.busy

\* C20 as claimed: run() refuses to start, starting no scraper thread and
\* binding no socket, whenever a startup precondition fails: crt, key or
\* token missing, token shorter than 8 characters, crt or key without a PEM
\* envelope, or the port in use.
C20_Original ==
    (Entered /\ PreconditionFails) => NothingStarted

\* C20 as amended: run() refuses to start, starting no thread and binding
\* no socket, exactly when the port is in use or crt, key or token is
\* missing from the data directory; a short token or a crt or key without
\* a PEM envelope does not make run() refuse.
C20_RefusesToStart ==
    Entered =>
        /\ daemon.pc = "refused" <=>
              \/ daemon.busy
              \/ daemon.crt = "missing"
              \/ daemon.key = "missing"
              \/ token = "Unknown"
        /\ daemon.pc = "refused" => NothingStarted

\* run() returned at once because the port was in use, with all three
\* files in place
C20_Witness ==
    /\ daemon.pc = "refused"
    /\ daemon.busy
    /\ daemon.crt = "pem"
    /\ daemon.key = "pem"
    /\ token \in Tokens
    /\ NothingStarted


\* the exporter under fair scheduling of its main thread and its scrapers
SpecExporterLive ==
    /\ SpecExporter
    /\ WF_vars(run_returns)
    /\ \A k \in Scrapers : WF_vars(scraper_stops(k))
    /\ \A k \in Scrapers : WF_vars(update_task(k))

\* C21: after TERM or INT is delivered to a running exporter the stop flag
\* is set, the scrapers and the main loop leave and run() returns: the
\* exporter eventually terminates.
C21_Terminates ==
    (Alive /\ daemon.stop) ~> ~Alive

\* the same for a signal that arrives once run() is in its main loop
C21_TerminatesFromLoop ==
    (daemon.pc = "loop" /\ daemon.stop) ~> daemon.pc = "returned"


\* ------------------------------------------------------------------------
\* call(): a child process run under asyncio with a timeout

\* timeout in seconds; 0 stands for None (timeout and ctx.timeout unset)
Timeouts == {0, 1, 2}
ExitCodes == {0, 1, 124}
InCall == proc.pc \in {"gather", "wait"}

\* call: run_with_timeout spawns the child with stdout and stderr piped
call(timeout) ==
    /\ proc.pc = "idle"
    /\ proc' = [proc EXCEPT !.pc = "gather", !.timeout = timeout,
                            !.streams = "open", !.child = "running"]
    /\ UNCHANGED <<boot, infer, host, lockVars, httpVars, deployVars>>

\* the child closes its stdout and stderr and keeps running
child_closes ==
    /\ proc.child = "running"
    /\ proc.streams = "open"
    /\ proc' = [proc EXCEPT !.streams = "closed"]
    /\ UNCHANGED <<boot, infer, host, lockVars, httpVars, deployVars>>

\* the child exits, which closes its ends of the pipes
child_exits(code) ==
    /\ proc.child = "running"
    /\ proc' = [proc EXCEPT !.child = "exited", !.streams = "closed",
                            !.returncode = IF InCall THEN code ELSE @]
    /\ UNCHANGED <<boot, infer, host, lockVars, httpVars, deployVars>>

\* run_with_timeout: asyncio.gather(tee(stdout), tee(stderr)) returns when
\* both streams are at end of file; no timeout applies to it
gather ==
    /\ proc.pc = "gather"
    /\ proc.streams = "closed"
    /\ proc' = [proc EXCEPT !.pc = "wait", !.waited = 0]
    /\ UNCHANGED <<boot, infer, host, lockVars, httpVars, deployVars>>

\* run_with_timeout: process.wait() returns the child's exit code
wait_returns ==
    /\ proc.pc = "wait"
    /\ proc.child = "exited"
    /\ proc' = [proc EXCEPT !.pc = "returned"]
    /\ UNCHANGED <<boot, infer, host, lockVars, httpVars, deployVars>>

\* run_with_timeout: asyncio.wait_for raises TimeoutError after timeout
\* seconds of process.wait(); the handler logs and returns '', '', 124
wait_for_timeout ==
    /\ proc.pc = "wait"
    /\ proc.child = "running"
    /\ proc.timeout > 0
    /\ proc.waited >= proc.timeout
    /\ proc' = [proc EXCEPT !.pc = "returned", !.returncode = 124,
                            !.timedout = TRUE]
    /\ UNCHANGED <<boot, infer, host, lockVars, httpVars, deployVars>>

\* a second passes while call() is running; wait_for does not let its
\* deadline pass
call_tick ==
    /\ InCall
    /\ proc.total < MaxCallClock
    /\ proc.pc = "wait" => (proc.timeout = 0 \/ proc.waited < proc.timeout)
    /\ proc' = [proc EXCEPT !.total = @ + 1,
                            !.waited = IF proc.pc = "wait" THEN @ + 1 ELSE @]
    /\ UNCHANGED <<boot, infer, host, lockVars, httpVars, deployVars>>

InitCall ==
    /\ LockIdle
    /\ HttpIdle
    /\ ToolIdle
    /\ DeployIdle

NextCall ==
    \/ \E timeout \in Timeouts : call(timeout)
    \/ child_closes
    \/ \E code \in ExitCodes : child_exits(code)
    \/ gather
    \/ wait_returns
    \/ wait_for_timeout
    \/ call_tick

SpecCall == InitCall /\ [][NextCall]_vars

\* C22: for any child behaviour, a child that never exits or never closes
\* its stdout and stderr included, call() with a finite timeout returns once
\* the timeout has elapsed: call() is never still running when more than
\* timeout seconds have passed since it was entered.
C22_ReturnsAtTimeout ==
    (InCall /\ proc.timeout > 0) => proc.total <= proc.timeout

\* C23: when call() hits its timeout the child is terminated before call()
\* returns: call() has never returned 124 on timeout while the child it
\* spawned is still running.
C23_ChildTerminated ==
    (proc.pc = "returned" /\ proc.timedout) => proc.child # "running"


\* ------------------------------------------------------------------------
\* Properties of FileLock's waiting and nesting

\* the lock under fair scheduling of every process's polling loop
SpecLockLive ==
    /\ SpecLock
    /\ \A p \in Procs : WF_vars(acquire_poll(p))

\* process p is an agent invocation waiting for its cluster's lock: the
\* commands construct FileLock(ctx, fsid) with the default timeout -1
AgentWaits(p) == lk[p].pc = "acquiring" /\ lk[p].timeout = -1

\* C24 as claimed: an agent invocation that cannot obtain FileLock(FSID)
\* fails with a lock-timeout error; it does not wait indefinitely for a
\* lock that another process keeps holding.
C24_Original ==
    \A p \in Procs : AgentWaits(p) ~> lk[p].pc # "acquiring"

\* C24 as amended: an agent invocation waits for FileLock(FSID) without
\* limit: its acquire never ends in Timeout, and while another process
\* holds the lock every poll leaves it waiting.
C24_AgentWaitsForLock ==
    [][\A p \in Procs :
          /\ lk[p].timeout = -1 => lk'[p].pc # "timeout"
          /\ (AgentWaits(p) /\ ~FlockGranted(lk[p].fsid)
                /\ lk'[p] # lk[p]) =>
                \/ AgentWaits(p)'
                \/ lk'[p] = NoLock]_vars

\* an agent invocation has polled while another process holds the lock of
\* its cluster
C24_Witness ==
    \E p, q \in Procs :
        /\ p # q
        /\ AgentWaits(p)
        /\ lk[p].waited > 0
        /\ lk[q].fsid = lk[p].fsid
        /\ is_locked(q)


\* process p is between two operations on its FileLock object
Between(p) == lk[p].pc \in {"ready", "held", "timeout"}

\* C25: FileLock is reentrant within a process: between operations the
\* object holds the OS lock iff its lock counter is greater than 0, the
\* counter is never negative (also after release() on an unlocked object),
\* a release() that leaves the counter above 0 keeps the OS lock, and the
\* OS lock is given up only by the release that brings the counter to 0.
C25_Reentrant ==
    [][\A p \in Procs :
          /\ lk'[p].counter >= 0
          /\ Between(p)' =>
                /\ is_locked(p)' <=> lk'[p].counter > 0
                /\ is_locked(p)' <=> p \in flock'[lk'[p].fsid]
          /\ (is_locked(p) /\ lk'[p].counter = lk[p].counter - 1
                /\ lk'[p].counter > 0) => is_locked(p)'
          /\ (is_locked(p) /\ ~is_locked(p)') => lk'[p].counter = 0]_vars

\* a process holds its lock after two nested acquires
C25_Witness ==
    \E p \in Procs :
        /\ lk[p].pc = "held"
        /\ lk[p].counter = 2
        /\ p \in flock[lk[p].fsid]


\* the step in which p's acquire() raises Timeout
TimesOut(p) == lk[p].pc = "acquiring" /\ lk'[p].pc = "timeout"

\* C26: acquire(timeout = t) with t >= 0 on a lock held by another process
\* fails with Timeout after the deadline has passed, and the failed call
\* leaves the object as it was before the call: the lock counter back at
\* its value before the call, the lock not held, no descriptor open.  The
\* processes are interchangeable, so that the call ends is stated for
\* process 1.
C26_TimeoutRestores ==
    /\ [][\A p \in Procs :
             TimesOut(p) =>
                /\ lk[p].timeout >= 0
                /\ lk[p].waited > lk[p].timeout
                /\ flock[lk[p].fsid] \ {p} # {}
                /\ lk'[p].counter = lk[p].counter - 1
                /\ lk'[p].counter = 0
                /\ ~is_locked(p)'
                /\ p \notin flock'[lk[p].fsid]]_vars
    /\ (lk[1].pc = "acquiring" /\ lk[1].timeout >= 0) ~>
           lk[1].pc # "acquiring"

\* an acquire with timeout 1 has failed while another process holds the
\* lock
C26_Witness ==
    \E p, q \in Procs :
        /\ p # q
        /\ lk[p].pc = "timeout"
        /\ lk[p].timeout = 1
        /\ lk[p].counter = 0
        /\ lk[q].fsid = lk[p].fsid
        /\ is_locked(q)


\* ------------------------------------------------------------------------
\* Bootstrap: _pull_image, is_available and the order of command_bootstrap

PullResults == {"ok", "transient", "fatal"}
\* the sleeps of _pull_image's loop: for sleep_secs in [1, 4, 25]
pull_sleeps == <<1, 4, 25>>
PollSleep == 2
Waits == {"mon", "mgr", "mgr epoch"}

\* command_bootstrap up to the image pull
command_bootstrap(retry, skip_pull) ==
    /\ boot.pc = "idle"
    /\ boot' = [boot EXCEPT !.retry = retry, !.skip_pull = skip_pull,
                            !.pc = IF skip_pull THEN "create_mon"
                                   ELSE "pull"]
    /\ UNCHANGED <<proc, infer, host, lockVars, httpVars, deployVars>>

\* _pull_image with a loop that also retries after a failure that matches
\* no transient pattern
_pull_image_retry_all(result) ==
    /\ boot.pc = "pull"
    /\ boot' =
          IF result = "ok"
          THEN [boot EXCEPT !.pulls = Append(@, result),
                            !.pc = "create_mon"]
          ELSE [boot EXCEPT !.pulls = Append(@, result),
                            !.pc = "pull_sleep"]
    /\ UNCHANGED <<proc, infer, host, lockVars, httpVars, deployVars>>

\* _pull_image, one pass of the loop: call the engine's pull; return on
\* exit code 0, raise at once when stderr holds no pattern of ignorelist,
\* otherwise sleep
_pull_image(result) ==
    /\ boot.pc = "pull"
    /\ boot' =
          IF result = "ok"
          THEN [boot EXCEPT !.pulls = Append(@, result),
                            !.pc = "create_mon"]
          ELSE IF result = "fatal"
          THEN [boot EXCEPT !.pulls = Append(@, result),
                            !.pc = "failed",
                            !.error = "Failed command"]
          ELSE [boot EXCEPT !.pulls = Append(@, result),
                            !.pc = "pull_sleep"]
    /\ UNCHANGED <<proc, infer, host, lockVars, httpVars, deployVars>>

\* _pull_image: time.sleep(sleep_secs), then the next pass or, after the
\* third, the raise that follows the loop
pull_sleep ==
    /\ boot.pc = "pull_sleep"
    /\ boot' =
          IF Len(boot.pulls) < Len(pull_sleeps)
          THEN [boot EXCEPT !.slept = @ + pull_sleeps[Len(boot.pulls)],
                            !.pc = "pull"]
          ELSE [boot EXCEPT !.slept = @ + pull_sleeps[Len(boot.pulls)],
                            !.pc = "failed",
                            !.error = "maximum retries reached"]
    /\ UNCHANGED <<proc, infer, host, lockVars, httpVars, deployVars>>

\* is_available, entry: retry = ctx.retry, num = 1
is_available(b, what) ==
    [b EXCEPT !.what = what, !.num = 1, !.probes = <<>>, !.waited = 0,
              !.pc = "probe"]

\* command_bootstrap: create_mon deploys and starts the monitor, then
\* wait_for_mon polls 'ceph status'
create_mon ==
    /\ boot.pc = "create_mon"
    /\ boot' = is_available([boot EXCEPT !.mon = "started"], "mon")
    /\ UNCHANGED <<proc, infer, host, lockVars, httpVars, deployVars>>

\* what command_bootstrap does when is_available returns
available(b) ==
    CASE b.what = "mon" -> [b EXCEPT !.mon = "answered", !.pc = "create_mgr"]
      [] b.what = "mgr" -> [b EXCEPT !.mgr = "available",
                                     !.pc = "enable_module"]
      [] OTHER -> [b EXCEPT !.pc = "done"]

\* is_available with the success of func() ignored at the last try
probe_gives_up(ok) ==
    /\ boot.pc = "probe"
    /\ boot' =
          IF boot.num > boot.retry
          THEN [boot EXCEPT !.probes = Append(@, ok), !.pc = "failed",
                            !.error = boot.what \o " not available"]
          ELSE IF ok
          THEN available([boot EXCEPT !.probes = Append(@, ok)])
          ELSE [boot EXCEPT !.probes = Append(@, ok), !.pc = "sleep"]
    /\ UNCHANGED <<proc, infer, host, lockVars, httpVars, deployVars>>

\* is_available, the head of one pass: func() is called; on True the wait
\* ends, on False with num > retry Error is raised, otherwise the loop
\* goes on to its sleep
probe(ok) ==
    /\ boot.pc = "probe"
    /\ boot.what # "mgr epoch"
    /\ boot' =
          IF ok
          THEN available([boot EXCEPT !.probes = Append(@, ok)])
          ELSE IF boot.num > boot.retry
          THEN [boot EXCEPT !.probes = Append(@, ok), !.pc = "failed",
                            !.error = boot.what \o " not available"]
          ELSE [boot EXCEPT !.probes = Append(@, ok), !.pc = "sleep"]
    /\ UNCHANGED <<proc, infer, host, lockVars, httpVars, deployVars>>

\* is_available, the tail of one pass: num += 1, time.sleep(2)
sleep ==
    /\ boot.pc = "sleep"
    /\ boot' = [boot EXCEPT !.num = @ + 1, !.waited = @ + PollSleep,
                            !.pc = "probe"]
    /\ UNCHANGED <<proc, infer, host, lockVars, httpVars, deployVars>>

\* command_bootstrap with create_mgr moved in front of wait_for_mon
create_mgr_early ==
    /\ boot.pc \in {"create_mgr", "probe"}
    /\ boot.mgr = "absent"
    /\ boot' = is_available([boot EXCEPT !.mgr = "started"], "mgr")
    /\ UNCHANGED <<proc, infer, host, lockVars, httpVars, deployVars>>

\* create_mgr: deploy and start the manager, then poll its availability
create_mgr ==
    /\ boot.pc = "create_mgr"
    /\ boot' = is_available([boot EXCEPT !.mgr = "started"], "mgr")
    /\ UNCHANGED <<proc, infer, host, lockVars, httpVars, deployVars>>

\* enable_cephadm_mgr_module: 'mgr module enable cephadm', which the
\* monitor answers with a new mgrmap (bump) or, the module being enabled
\* already, without one; then wait_for_mgr_restart reads the monitor's
\* epoch with 'mgr stat' and polls the manager for it.  before keeps the
\* epoch at the time of the enable, which the code does not read.
enable_cephadm_mgr_module(bump) ==
    /\ boot.pc = "enable_module"
    /\ LET latest == IF bump THEN boot.mgrmap + 1 ELSE boot.mgrmap
       IN  boot' = is_available([boot EXCEPT !.module = TRUE,
                                             !.before = boot.mgrmap,
                                             !.mgrmap = latest,
                                             !.epoch = latest],
                                "mgr epoch")
    /\ UNCHANGED <<proc, infer, host, lockVars, httpVars, deployVars>>

\* what 'tell mgr mgr_status' can give: the epoch of a map the manager has,
\* or -1 for a call that fails
Reports == -1 .. boot.mgrmap

\* mgr_has_latest_epoch, had it returned True for any answer
mgr_has_latest_epoch_any(reported) == reported >= 0

\* wait_for_mgr_restart.mgr_has_latest_epoch: j['mgrmap_epoch'] >= epoch,
\* False when the call raises
mgr_has_latest_epoch(reported) == reported >= 0 /\ reported >= boot.epoch

\* is_available with func = mgr_has_latest_epoch, the head of one pass
probe_mgr_epoch(reported) ==
    /\ boot.pc = "probe"
    /\ boot.what = "mgr epoch"
    /\ LET ok == mgr_has_latest_epoch(reported)
           b == [boot EXCEPT !.probes = Append(@, ok), !.seen = reported]
       IN  boot' = IF ok THEN available(b)
                   ELSE IF boot.num > boot.retry
                   THEN [b EXCEPT !.pc = "failed",
                                  !.error = boot.what \o " not available"]
                   ELSE [b EXCEPT !.pc = "sleep"]
    /\ UNCHANGED <<proc, infer, host, lockVars, httpVars, deployVars>>

InitBootstrap ==
    /\ LockIdle
    /\ HttpIdle
    /\ ToolIdle
    /\ DeployIdle

NextBootstrap ==
    \/ \E retry \in 0..MaxRetry, skip_pull \in BOOLEAN :
          command_bootstrap(retry, skip_pull)
    \/ \E result \in PullResults : _pull_image(result)
    \/ pull_sleep
    \/ create_mon
    \/ \E ok \in BOOLEAN : probe(ok)
    \/ sleep
    \/ create_mgr
    \/ \E bump \in BOOLEAN : enable_cephadm_mgr_module(bump)
    \/ \E reported \in Reports : probe_mgr_epoch(reported)

SpecBootstrap == InitBootstrap /\ [][NextBootstrap]_vars

\* the bootstrap under fair scheduling of its single thread
SpecBootstrapLive == SpecBootstrap /\ WF_vars(NextBootstrap)


\* is_available is running
Polling == boot.pc \in {"probe", "sleep"}
\* is_available has raised Error
PollFailed == boot.pc = "failed" /\ boot.what \in Waits
\* is_available has returned
PollReturned == boot.what \in Waits /\ ~Polling /\ boot.pc # "failed"
\* the probes of the current wait that came before the last one
Earlier == 1..(Len(boot.probes) - 1)

PullEnded == boot.pulls # <<>> /\ boot.pc \notin {"pull", "pull_sleep"}
LastPull == boot.pulls[Len(boot.pulls)]

\* C28: the image pull is attempted at most three times: it returns on the
\* first successful attempt, raises at once, without retrying, when a
\* failure's stderr matches no transient pattern, and raises 'maximum
\* retries reached' after three consecutive transient failures.
C28_PullAttempts ==
    /\ Len(boot.pulls) <= 3
    /\ \A i \in 1..(Len(boot.pulls) - 1) : boot.pulls[i] = "transient"
    /\ (PullEnded /\ LastPull = "ok") =>
          boot.error \notin {"Failed command", "maximum retries reached"}
    /\ (PullEnded /\ LastPull = "fatal") =>
          boot.pc = "failed" /\ boot.error = "Failed command"
    /\ (PullEnded /\ LastPull = "transient") =>
          /\ Len(boot.pulls) = 3
          /\ boot.pc = "failed"
          /\ boot.error = "maximum retries reached"
    /\ (PullEnded /\ boot.pc # "failed") => LastPull = "ok"

\* three transient failures in a row ended the pull
C28_Witness ==
    /\ boot.pulls = <<"transient", "transient", "transient">>
    /\ boot.pc = "failed"
    /\ boot.error = "maximum retries reached"


\* C29: in bootstrap the manager is deployed only after the monitor has
\* been started and has answered status, and the cephadm orchestrator
\* module is enabled only after the manager has reported available; if the
\* monitor does not answer within the retry ceiling, bootstrap fails
\* without deploying the manager.
C29_BootstrapOrder ==
    /\ [](/\ boot.mgr # "absent" => boot.mon = "answered"
          /\ boot.module => boot.mgr = "available"
          /\ (boot.pc = "failed" /\ boot.what = "mon") =>
                /\ boot.mgr = "absent"
                /\ ~boot.module
                /\ boot.error = "mon not available")
    /\ [][/\ boot.pc = "failed" => boot'.pc = "failed"
          /\ boot'.mon = "answered" =>
                \/ boot.mon = "answered"
                \/ /\ boot.what = "mon"
                   /\ boot'.probes[Len(boot'.probes)]]_vars

\* the monitor did not answer any of the three probes and bootstrap failed
\* with no manager deployed
C29_Witness ==
    /\ boot.pc = "failed"
    /\ boot.what = "mon"
    /\ boot.probes = <<FALSE, FALSE, FALSE>>
    /\ boot.mon = "started"
    /\ boot.mgr = "absent"


\* ------------------------------------------------------------------------
\* infer_fsid: the decorator that fills in ctx.fsid

\* the fsid of a legacy daemon that list_daemons could not determine
UnknownFsid == "unknown"
DaemonNames == {"mon.a", "mgr.x"}
\* the entries list_daemons can return on the modelled hosts
DaemonEntries == [fsid : FSIDs \cup {UnknownFsid}, name : DaemonNames]

\* is_fsid: the string parses as a UUID
is_fsid(s) == s \in FSIDs

\* the least element of a non-empty set of fsids: sorted(fsids_set)[0]
First(S) == CHOOSE f \in S : \A g \in S : (f = "F1" \/ g = "F2")

\* _infer_fsid's set with the test of ctx.name left out
fsids_set_any_name(daemons, name) ==
    {d.fsid : d \in {e \in daemons : is_fsid(e.fsid)}}

\* _infer_fsid: the fsids of the listed daemons that have a real fsid and,
\* when ctx.name is set, that name
fsids_set(daemons, name) ==
    {d.fsid : d \in {e \in daemons :
                        /\ is_fsid(e.fsid)
                        /\ name = "" \/ e.name = name}}

\* _infer_fsid: a given ctx.fsid is used as it is; otherwise a single fsid
\* found is assigned, none leaves ctx.fsid unset, several raise Error
\* before func is called
_infer_fsid ==
    /\ infer.pc = "called"
    /\ infer' =
          IF infer.given # ""
          THEN [infer EXCEPT !.pc = "func"]
          ELSE IF Cardinality(fsids_set(infer.daemons, infer.name)) > 1
          THEN [infer EXCEPT !.pc = "Cannot infer an fsid"]
          ELSE IF fsids_set(infer.daemons, infer.name) = {}
          THEN [infer EXCEPT !.pc = "func"]
          ELSE [infer EXCEPT
                   !.pc = "func",
                   !.fsid = First(fsids_set(infer.daemons, infer.name))]
    /\ UNCHANGED <<proc, boot, host, lockVars, httpVars, deployVars>>

\* the command ends; the next invocation finds the same host
infer_returns ==
    /\ infer.pc \in {"func", "Cannot infer an fsid"}
    /\ infer' = [infer EXCEPT !.pc = "ended"]
    /\ UNCHANGED <<proc, boot, host, lockVars, httpVars, deployVars>>

\* a command behind @infer_fsid is invoked with or without --fsid and
\* --name on a host with any set of daemons
InitInfer ==
    /\ LockIdle
    /\ HttpIdle
    /\ DeployIdle
    /\ HostIdle
    /\ proc = [pc |-> "idle", timeout |-> 0, total |-> 0, waited |-> 0,
               streams |-> "-", child |-> "none", returncode |-> -1,
               timedout |-> FALSE]
    /\ boot = [pc |-> "idle", skip_pull |-> FALSE, retry |-> 0,
               pulls |-> <<>>, slept |-> 0, what |-> "-", num |-> 0,
               probes |-> <<>>, waited |-> 0, mon |-> "absent",
               mgr |-> "absent", module |-> FALSE, error |-> "-",
               mgrmap |-> 1, before |-> 0, epoch |-> 0, seen |-> -1]
    /\ \E daemons \in SUBSET DaemonEntries, fsid \in FSIDs \cup {""},
          name \in DaemonNames \cup {""} :
          infer = [pc |-> "called", daemons |-> daemons, fsid |-> fsid,
                   name |-> name, given |-> fsid]

NextInfer ==
    \/ _infer_fsid
    \/ infer_returns

SpecInfer == InitInfer /\ [][NextInfer]_vars

\* the clusters of the daemons found on the host, restricted to those named
\* --name when a name is given
Clusters ==
    {f \in FSIDs : \E d \in infer.daemons :
        d.fsid = f /\ (infer.name = "" \/ d.name = infer.name)}

\* C30: without --fsid the handler runs with the FSID set to F if the
\* daemon directories found (those matching --name when a name is given)
\* belong to exactly one cluster F; the invocation fails with a
\* cannot-infer-fsid error, the handler not run, if they belong to two or
\* more clusters; a given --fsid is never overridden.
C30_InferFsid ==
    infer.pc \in {"func", "Cannot infer an fsid"} =>
        /\ infer.given # "" =>
              infer.pc = "func" /\ infer.fsid = infer.given
        /\ (infer.given = "" /\ Cardinality(Clusters) = 1) =>
              infer.pc = "func" /\ Clusters = {infer.fsid}
        /\ (infer.given = "" /\ Cardinality(Clusters) >= 2) =>
              infer.pc = "Cannot infer an fsid" /\ infer.fsid = ""

\* mon.a exists in two clusters but mgr.x in one only: --name mgr.x picked
\* that cluster
C30_Witness ==
    /\ infer.pc = "func"
    /\ infer.given = ""
    /\ infer.name = "mgr.x"
    /\ infer.fsid = "F2"
    /\ [fsid |-> "F1", name |-> "mon.a"] \in infer.daemons
    /\ [fsid |-> "F2", name |-> "mon.a"] \in infer.daemons
    /\ [fsid |-> "F2", name |-> "mgr.x"] \in infer.daemons


\* ------------------------------------------------------------------------
\* Frame and order properties of deploy and rm-daemon

\* a step of the running rm-daemon
RmStep == inv.op = "rm" /\ ~At("idle") /\ AgentStep

\* C31 as claimed: rm-daemon, for every daemon kind, does not delete or
\* modify any unit file under the unit root.
C31_Original ==
    [][RmStep => sys'.unitFiles = sys.unitFiles]_vars

\* C31 as amended: rm-daemon never removes the template unit or a target;
\* the only unit file it removes is the exporter's own
\* ceph-<FSID>-cephadm-exporter.<id>.service, which CephadmDaemon.uninstall
\* deletes when the removed daemon is the exporter, its unit.run can be
\* read and the removal is not killed before that; for every other kind the
\* unit files are left as they were.
C31_UnitFilesKept ==
    [][RmStep =>
          sys'.unitFiles =
              IF /\ At("r_data")
                 /\ inv'.result # "killed"
                 /\ kind = "cephadm-exporter"
                 /\ Has("unit.run")
              THEN sys.unitFiles \ {ExporterUnit}
              ELSE sys.unitFiles]_vars

\* a mgr was removed and the template unit and targets are still there
C31_Witness ==
    /\ kind = "mgr"
    /\ inv.op = "rm"
    /\ inv.result = "ok"
    /\ ~dir.exists
    /\ TemplateUnit \in sys.unitFiles
    /\ BaseUnits \subseteq sys.unitFiles


\* C32: without firewalld (firewall-cmd absent, or firewalld.service not
\* enabled or not running) no step of a deploy or of an rm-daemon changes
\* the firewall's services or ports, and the firewall step of deploy cannot
\* fail: unless it is killed it changes nothing but the position of the
\* deploy, which goes on to the restart of a reconfigure or returns.
C32_NoFirewallNoEffect ==
    [][~fwAvail =>
          /\ sys'.fwServices = sys.fwServices
          /\ sys'.fwPorts = sys.fwPorts
          /\ (At("d_fw") /\ inv'.result # "killed") =>
                /\ sys' = sys
                /\ dir' = dir
                /\ inv'.result \in {"-", "ok"}
                /\ inv'.pc \in {"d_restart", "idle"}]_vars

\* a deploy with ports to open has returned on a host without firewalld
C32_Witness ==
    /\ ~fwAvail
    /\ inv.op = "deploy"
    /\ inv.result = "ok"
    /\ Has("unit.meta")
    /\ dir.files["unit.meta"].ports # {}
    /\ sys.fwPorts = {}
    /\ sys.fwServices = {}


\* the files deploy_daemon_units renames into place
UnitScripts == {"unit.run", "unit.meta", "unit.poststop", "unit.image"}

\* the step of a non-reconfigure deploy of a containerised kind that enables
\* or starts the unit
EnablesOrStarts ==
    /\ inv.op = "deploy"
    /\ ~inv.reconfig
    /\ kind # "cephadm-exporter"
    /\ \/ sys'.enabled /\ (~sys.enabled \/ At("u_enable"))
       \/ sys'.active /\ ~sys.active

\* C33: in a non-reconfigure deploy of a containerised kind the unit is
\* enabled and started only when unit.run, unit.meta, unit.poststop and
\* unit.image of this deploy are in place (no .new file is left, unit.run
\* and unit.image carry the image of this invocation), the targets and the
\* template unit are written, and the old unit has been stopped; enable
\* comes before start.
C33_StartAfterFiles ==
    [][EnablesOrStarts =>
          /\ \A n \in UnitScripts :
                /\ dir.files[n].st = "full"
                /\ ~Has(n \o ".new")
          /\ dir.files["unit.run"].img = inv.image
          /\ dir.files["unit.image"].img = inv.image
          /\ BaseUnits \cup {TemplateUnit} \subseteq sys.unitFiles
          /\ ~sys.active
          /\ sys'.active => sys.enabled]_vars

\* a second deploy, over a unit that an earlier deploy had started, has
\* stopped and enabled the unit and is about to start it
C33_Witness ==
    /\ inv.op = "deploy"
    /\ ~inv.reconfig
    /\ inv.n = 2
    /\ Has("unit.created")
    /\ kind = "mgr"
    /\ At("u_start")
    /\ sys.enabled
    /\ ~sys.active
    /\ \A n \in UnitScripts : dir.files[n].st = "full"


\* the step of rm-daemon that moves the data directory to removed/ or
\* deletes it
DataGoes == inv.op = "rm" /\ dir.exists /\ ~dir'.exists

\* C34 as claimed: the data directory is never moved or removed while the
\* unit is still running or enabled.
C34_Original ==
    [][DataGoes => (~sys.active /\ ~sys.enabled)]_vars

\* C34 as amended: rm-daemon issues stop, reset-failed and disable of the
\* unit before it moves or deletes the data directory, and ignores their
\* results: the systemctl calls are the first step of the removal and leave
\* the directory alone, no step of the removal starts or enables the unit,
\* and the directory goes only in the step after them.  The unit is down
\* at that point only if stop and disable took effect.
C34_StopIssuedBeforeData ==
    [][/\ (At("idle") /\ inv'.op = "rm" /\ inv'.pc # "idle") =>
             inv'.pc = "r_units"
       /\ (At("r_units") /\ inv'.result # "killed") =>
             /\ inv'.pc = "r_data"
             /\ dir' = dir /\ removed' = removed
       /\ (inv.op = "rm" /\ ~At("idle")) =>
             (sys'.active => sys.active) /\ (sys'.enabled => sys.enabled)
       /\ DataGoes => At("r_data")]_vars

\* an osd that was running and enabled has been removed: its unit is down
\* and its data directory has been moved to removed/
C34_Witness ==
    /\ kind = "osd"
    /\ inv.op = "rm"
    /\ inv.result = "ok"
    /\ ~dir.exists
    /\ removed # {}
    /\ ~sys.active
    /\ ~sys.enabled
    /\ TemplateUnit \in sys.unitFiles


\* C35: ceph-mon --mkfs is run by deploy only for a mon whose data
\* directory does not exist: the only step that runs it is the directory
\* step of a deploy of a mon with no data directory, a reconfigure never
\* runs it, and no data directory ever sees a second mkfs over its store.
C35_MkfsOnlyOnNewMon ==
    /\ [](dir.mkfs # "again")
    /\ [](kind # "mon" => dir.mkfs = "never")
    /\ [][dir'.mkfs \notin {dir.mkfs, "never"} =>
             /\ At("d_dirs")
             /\ inv.op = "deploy"
             /\ kind = "mon"
             /\ ~dir.exists
             /\ ~inv.reconfig]_vars
    /\ [][(At("d_dirs") /\ dir.exists) => dir'.mkfs = dir.mkfs]_vars

\* a second deploy of a mon is past the directory step and the store of the
\* first deploy has seen one mkfs
C35_Witness ==
    /\ kind = "mon"
    /\ inv.op = "deploy"
    /\ inv.n = 2
    /\ Has("unit.created")
    /\ At("u_open")
    /\ dir.mkfs = "once"


\* a step of a running deploy with reconfig
ReconfigStep == inv.op = "deploy" /\ inv.reconfig /\ ~At("idle")

C37_NoTornRead == resp.data \notin {"stamped", "restamped"}


\* ------------------------------------------------------------------------
\* Properties of the wait for the manager's epoch

\* the step in which the wait for the manager's epoch ends and bootstrap
\* goes on
EpochWaitReturns ==
    boot.pc = "probe" /\ boot.what = "mgr epoch" /\ boot'.pc = "done"

\* the step in which the wait for the manager's epoch raises
EpochWaitFails ==
    boot.pc = "probe" /\ boot.what = "mgr epoch" /\ boot'.pc = "failed"

\* C38 as claimed: after the module is enabled bootstrap goes on only once
\* the manager reports an epoch strictly greater than the epoch current
\* before the enable.
C38_Original ==
    [][EpochWaitReturns => boot'.seen > boot.before]_vars

\* C38 as amended: after the module is enabled bootstrap goes on only once
\* the manager reports an epoch at least as great as the monitor's epoch
\* read after the enable, which is not less than the epoch before it and
\* greater only if the enable made a new map; the wait raises only when a
\* try past the retry ceiling has not seen that epoch, and nothing else
\* leaves the wait.
C38_WaitsForEpoch ==
    /\ [](boot.what = "mgr epoch" =>
             boot.epoch = boot.mgrmap /\ boot.epoch >= boot.before)
    /\ [][EpochWaitReturns => boot'.seen >= boot.epoch]_vars
    /\ [][EpochWaitFails =>
             /\ boot.num > boot.retry
             /\ boot'.seen < boot.epoch
             /\ \A i \in 1..Len(boot'.probes) : ~boot'.probes[i]
             /\ boot'.error = "mgr epoch not available"]_vars
    /\ [][(boot.what = "mgr epoch" /\ boot.pc = "probe"
             /\ boot'.pc \notin {"done", "failed"}) =>
                boot'.pc \in {"probe", "sleep"} /\ boot'.epoch = boot.epoch]_vars

\* the enable made a new map, the manager first reported the old epoch and
\* then the new one, and bootstrap went on
C38_Witness ==
    /\ boot.pc = "done"
    /\ boot.epoch > boot.before
    /\ boot.seen = boot.epoch
    /\ Len(boot.probes) > 1


\* the step that is an rm-daemon given without --force
RmWithoutForce ==
    \E fdd \in BOOLEAN : command_rm_daemon(FALSE, fdd)

\* C39: rm-daemon of a mon or osd without --force fails with an error and
\* changes nothing: the invocation has ended in that step, so none of its
\* systemctl calls and no move or removal of the data directory follows,
\* and unit, unit files, firewall, data directory and removed/ are as
\* before.
C39_ForceRequired ==
    [][(RmWithoutForce /\ kind \in {"mon", "osd"}) =>
          /\ inv'.op = "rm"
          /\ inv'.result = "error"
          /\ inv'.pc = "idle"
          /\ sys' = sys
          /\ dir' = dir
          /\ removed' = removed]_vars

\* rm-daemon of a deployed and running mon has been refused: the unit
\* still runs and the data directory is in place
C39_Witness ==
    /\ kind = "mon"
    /\ inv.op = "rm"
    /\ inv.result = "error"
    /\ dir.exists
    /\ Has("unit.created")
    /\ sys.active
    /\ sys.enabled


\* ------------------------------------------------------------------------
\* Clusters on one host: deploys into two clusters and command_rm_cluster
\* (without --zap-osds).  A deploy is one step here; its steps are followed
\* in the deploy engine above.

ClusterDaemons == {"mon.a", "osd.0"}
daemon_type_of(d) == IF d = "osd.0" THEN "osd" ELSE "mon"
\* the unit files install_base_units and deploy_daemon_units write for a
\* cluster
cluster_units(f) == {"ceph-" \o f \o "@.service", "ceph-" \o f \o ".target"}
\* install_sysctl writes a fragment for osd, haproxy and keepalived
sysctl_types(d) == IF daemon_type_of(d) = "osd" THEN {"osd"} ELSE {}

\* deploy of daemon d into cluster f under the cluster's FileLock, which a
\* running rm-cluster of f holds: data and log directory are made; with ok
\* the unit files, the logrotate file and the sysctl fragment are written
\* and the unit is enabled and started.  main() has written the logrotate
\* file cephadm.
deploy_into(f, d, ok) ==
    /\ host.rm.pc = "idle" \/ host.rm.fsid # f
    /\ host' =
          [host EXCEPT
             !.shared.logrotate = TRUE,
             !.shared.target = IF ok THEN TRUE ELSE @,
             !.cluster[f] =
                IF ok
                THEN [@ EXCEPT !.root = TRUE, !.logs = TRUE,
                               !.data = @ \cup {d},
                               !.units = @ \cup cluster_units(f),
                               !.sysctl = @ \cup sysctl_types(d),
                               !.logrotate = TRUE,
                               !.enabled = @ \cup {d},
                               !.active = @ \cup {d},
                               !.target = TRUE]
                ELSE [@ EXCEPT !.root = TRUE, !.logs = TRUE,
                               !.data = @ \cup {d}]]
    /\ UNCHANGED <<proc, boot, infer, lockVars, httpVars, deployVars>>

\* command_rm_cluster, entry: without --force it raises; main() has written
\* the logrotate file cephadm before
command_rm_cluster(f, force, keep_logs) ==
    /\ host.rm.pc = "idle"
    /\ host' = [host EXCEPT
                  !.shared.logrotate = TRUE,
                  !.rm = IF force
                         THEN [pc |-> "units", fsid |-> f,
                               keep_logs |-> keep_logs, result |-> "-"]
                         ELSE [NoRmCluster EXCEPT !.result = "error"]]
    /\ UNCHANGED <<proc, boot, infer, lockVars, httpVars, deployVars>>

\* command_rm_cluster, had the loop over list_daemons not skipped the
\* daemons of other clusters
listed_daemons_any_fsid(f) == [g \in FSIDs |-> host.cluster[g].data]

\* the daemons list_daemons reports for the cluster being removed
listed_daemons(f) == [g \in FSIDs |-> IF g = f THEN host.cluster[g].data ELSE {}]

\* command_rm_cluster: stop, reset-failed and disable of every listed
\* daemon's unit, of ceph-<fsid>.target and stop of the cluster's slice,
\* through call() with the results ignored (stopped: whether they took
\* effect)
rm_cluster_units(stopped) ==
    /\ host.rm.pc = "units"
    /\ LET f == host.rm.fsid
           ls == listed_daemons(f)
       IN  host' =
              [host EXCEPT
                 !.rm.pc = "rm_units",
                 !.cluster =
                    [g \in FSIDs |->
                       IF ~stopped THEN host.cluster[g]
                       ELSE IF g = f
                       THEN [host.cluster[g] EXCEPT
                               !.active = {},
                               !.enabled = @ \ ls[g],
                               !.target = FALSE]
                       ELSE [host.cluster[g] EXCEPT
                               !.active = @ \ ls[g],
                               !.enabled = @ \ ls[g]]]]
    /\ UNCHANGED <<proc, boot, infer, lockVars, httpVars, deployVars>>

\* an rm-cluster that raises
rm_cluster_fails ==
    [host EXCEPT !.rm = [NoRmCluster EXCEPT !.result = "error"]]

\* rm -f of the template unit and the target, rm -rf of the target's wants
rm_cluster_unit_files(ok) ==
    /\ host.rm.pc = "rm_units"
    /\ host' = IF ok
               THEN [host EXCEPT !.rm.pc = "rm_data",
                                 !.cluster[host.rm.fsid].units = {}]
               ELSE rm_cluster_fails
    /\ UNCHANGED <<proc, boot, infer, lockVars, httpVars, deployVars>>

\* rm -rf <data_dir>/<fsid> and, without --keep-logs, <log_dir>/<fsid>
rm_cluster_data(ok) ==
    /\ host.rm.pc = "rm_data"
    /\ host' = IF ok
               THEN [host EXCEPT
                       !.rm.pc = "rm_logrotate",
                       !.cluster[host.rm.fsid] =
                          [@ EXCEPT !.data = {}, !.root = FALSE,
                                    !.logs = IF host.rm.keep_logs THEN @
                                             ELSE FALSE]]
               ELSE rm_cluster_fails
    /\ UNCHANGED <<proc, boot, infer, lockVars, httpVars, deployVars>>

\* os.listdir(ctx.data_dir) is empty
no_cluster_left == \A g \in FSIDs : ~host.cluster[g].root

\* rm -f of the logrotate file ceph-<fsid>, and of the file cephadm when
\* no cluster directory is left
rm_cluster_logrotate(ok) ==
    /\ host.rm.pc = "rm_logrotate"
    /\ host' = IF ok
               THEN [host EXCEPT
                       !.rm.pc = "rm_sysctl",
                       !.cluster[host.rm.fsid].logrotate = FALSE,
                       !.shared.logrotate = IF no_cluster_left THEN FALSE
                                            ELSE @]
               ELSE rm_cluster_fails
    /\ UNCHANGED <<proc, boot, infer, lockVars, httpVars, deployVars>>

\* the fragments 90-ceph-<fsid>-*.conf are unlinked, the files under
\* /etc/ceph are removed when ceph.conf names the cluster; rm-cluster returns
rm_cluster_sysctl ==
    /\ host.rm.pc = "rm_sysctl"
    /\ host' = [host EXCEPT
                  !.rm = [NoRmCluster EXCEPT !.fsid = host.rm.fsid,
                                             !.result = "ok"],
                  !.cluster[host.rm.fsid].sysctl = {},
                  !.shared.conf = IF @ = host.rm.fsid THEN "none" ELSE @]
    /\ UNCHANGED <<proc, boot, infer, lockVars, httpVars, deployVars>>

InitCluster ==
    /\ LockIdle
    /\ HttpIdle
    /\ DeployIdle
    /\ InferIdle
    /\ proc = [pc |-> "idle", timeout |-> 0, total |-> 0, waited |-> 0,
               streams |-> "-", child |-> "none", returncode |-> -1,
               timedout |-> FALSE]
    /\ boot = [pc |-> "idle", skip_pull |-> FALSE, retry |-> 0,
               pulls |-> <<>>, slept |-> 0, what |-> "-", num |-> 0,
               probes |-> <<>>, waited |-> 0, mon |-> "absent",
               mgr |-> "absent", module |-> FALSE, error |-> "-",
               mgrmap |-> 1, before |-> 0, epoch |-> 0, seen |-> -1]
    /\ \E conf \in FSIDs \cup {"none"} :
          host = [NoHost EXCEPT !.shared.conf = conf]

NextCluster ==
    \/ \E f \in FSIDs, d \in ClusterDaemons, ok \in BOOLEAN :
          deploy_into(f, d, ok)
    \/ \E f \in FSIDs, force \in BOOLEAN, keep_logs \in BOOLEAN :
          command_rm_cluster(f, force, keep_logs)
    \/ \E stopped \in BOOLEAN : rm_cluster_units(stopped)
    \/ \E ok \in BOOLEAN : rm_cluster_unit_files(ok)
    \/ \E ok \in BOOLEAN : rm_cluster_data(ok)
    \/ \E ok \in BOOLEAN : rm_cluster_logrotate(ok)
    \/ rm_cluster_sysctl

SpecCluster == InitCluster /\ [][NextCluster]_vars

\* a step of rm-cluster
RmClusterStep == host'.rm # host.rm

\* C40: rm-cluster of one cluster leaves every other cluster on the host as
\* it was: no step of it changes another cluster's daemon data
\* directories, log directory, unit files and target, sysctl fragments,
\* logrotate file, or which of its units are enabled and running.
C40_OtherClustersKept ==
    [][RmClusterStep =>
          \A g \in FSIDs \ {host'.rm.fsid} :
             host'.cluster[g] = host.cluster[g]]_vars

\* rm-cluster of F1 has returned with nothing of F1 left, and both daemons
\* of F2 are deployed and running
C40_Witness ==
    /\ host.rm.pc = "idle"
    /\ host.rm.result = "ok"
    /\ host.rm.fsid = "F1"
    /\ host.cluster["F1"] = NoCluster
    /\ host.cluster["F2"].active = ClusterDaemons
    /\ host.cluster["F2"].units = cluster_units("F2")
    /\ host.cluster["F2"].sysctl = {"osd"}
    /\ host.cluster["F2"].logs

====
